---- MODULE Spec2Model ----
(***************************************************************************)
(* State-machine model of the software mixer of src/audio/mixer.cpp:       *)
(* MixerImpl (slot table, handle seed, ready flag, sound type settings)    *)
(* and Channel (volume, pause and timing state, owned stream and           *)
(* converter).  Every public method of MixerImpl is one action; the        *)
(* methods of Channel are operators on channel records.                    *)
(***************************************************************************)
EXTENDS Integers, Sequences, FiniteSets, TLC

VARIABLES
    channels,           \* MixerImpl::_channels: slot -> channel record or NoChannel
    handleSeed,         \* MixerImpl::_handleSeed
    mixerReady,         \* MixerImpl::_mixerReady
    soundTypeSettings,  \* MixerImpl::_soundTypeSettings: type -> [mute, volume]
    heap,               \* the AudioStream objects created by the callers
    hvar,               \* the caller's SoundHandle variable passed as `handle`
    now,                \* g_system->getMillis(true)
    aborted,            \* an assert() of the mixer has failed
    ndebug,             \* the build defines NDEBUG: assert() expands to nothing
    pending,            \* the call in progress that does not hold _mutex, or NoCall
    last                \* the last call: name, arguments and return value

vars == <<channels, handleSeed, mixerReady, soundTypeSettings, heap, hvar, now,
          aborted, ndebug, pending, last>>

----------------------------------------------------------------------------
(* Sizes.  The program has 32 slots and 32-bit counters; the model is      *)
(* checked with a smaller table and bounded counters.                      *)

NUM_CHANNELS == 2
\* number of AudioStream objects the callers create in one run
MaxStreams == 4
\* bound on Channel::_pauseLevel explored
MaxPause == 2
\* bound on the clock
MaxTime == 3
\* bound on Channel::_samplesDecoded explored
MaxDecoded == 2
\* width of the unsigned counters (2^32 in the program)
UIntMod == 256

kMaxMixerVolume == 256
kMaxChannelVolume == 255

Slots == 0 .. (NUM_CHANNELS - 1)
Sids == 0 .. (MaxStreams - 1)

\* SoundHandle() : _val(0xFFFFFFFF)
InvalidHandle == UIntMod - 1

\* every handle value a caller can hold within the bounds
Handles == 0 .. (NUM_CHANNELS * MaxStreams - 1)
HandlesAndInvalid == Handles \cup {InvalidHandle}

SoundTypes == {"plain", "music", "sfx", "speech"}

NoChannel == [used |-> FALSE]
NoStream == [null |-> TRUE]
NoCall == [op |-> "none"]

Wrap(x) == x % UIntMod

Max(a, b) == IF a > b THEN a ELSE b
CLIP(v, lo, hi) == IF v < lo THEN lo ELSE IF v > hi THEN hi ELSE v

\* C++ integer division truncates towards zero
CDiv(a, b) == IF a >= 0 THEN a \div b ELSE -((-a) \div b)

----------------------------------------------------------------------------
(* Channel                                                                 *)

isFinished(c) == c.stream.eos /\ ~c.converter.drain
\* faulty variant of isPermanent: no channel is permanent
isPermanentNever(c) == FALSE
isPermanent(c) == c.permanent
isPaused(c) == c.pauseLevel # 0

\* st_volume_t is a 16-bit unsigned value
StVolume(x) == x % 65536

\* faulty variants of Channel::updateChannelVolumes.  The first computes
\* the gains with the balance applied to side, the volume divided by
\* divisor, and the fader applied before (oneStage) or after the truncation.
GainsVariant(c, settings, side, divisor, oneStage) ==
    LET vol == settings[c.type].volume * c.volume
        b == c.balance * side
        full == CDiv(vol, divisor)
        balL == IF b > 0 THEN (127 - b) * vol ELSE 127 * vol
        balR == IF b < 0 THEN (127 + b) * vol ELSE 127 * vol
        volL == IF oneStage THEN CDiv(balL * c.faderL, divisor * 127 * 255)
                ELSE CDiv((IF b > 0 THEN CDiv(balL, divisor * 127) ELSE full) * c.faderL, 255)
        volR == IF oneStage THEN CDiv(balR * c.faderR, divisor * 127 * 255)
                ELSE CDiv((IF b < 0 THEN CDiv(balR, divisor * 127) ELSE full) * c.faderR, 255)
    IN [c EXCEPT !.volL = StVolume(volL), !.volR = StVolume(volR)]

\* the mute flag is not looked at
updateChannelVolumesIgnoresMute(c, settings) ==
    GainsVariant(c, settings, 1, kMaxChannelVolume, FALSE)

\* the balance attenuates the other side
updateChannelVolumesSwapped(c, settings) ==
    IF ~settings[c.type].mute
    THEN GainsVariant(c, settings, -1, kMaxChannelVolume, FALSE)
    ELSE [c EXCEPT !.volL = 0, !.volR = 0]

\* balance and fader applied in one division
updateChannelVolumesOneStage(c, settings) ==
    IF ~settings[c.type].mute
    THEN GainsVariant(c, settings, 1, kMaxChannelVolume, TRUE)
    ELSE [c EXCEPT !.volL = 0, !.volR = 0]

\* the volume divided by 256 and not by 255
updateChannelVolumesBy256(c, settings) ==
    IF ~settings[c.type].mute
    THEN GainsVariant(c, settings, 1, kMaxChannelVolume + 1, FALSE)
    ELSE [c EXCEPT !.volL = 0, !.volR = 0]

updateChannelVolumes(c, settings) ==
    IF ~settings[c.type].mute
    THEN LET vol == settings[c.type].volume * c.volume
             volL == IF c.balance = 0
                     THEN StVolume(CDiv(vol, kMaxChannelVolume))
                     ELSE IF c.balance < 0
                          THEN StVolume(CDiv(vol, kMaxChannelVolume))
                          ELSE StVolume(CDiv((127 - c.balance) * vol,
                                             kMaxChannelVolume * 127))
             volR == IF c.balance = 0
                     THEN StVolume(CDiv(vol, kMaxChannelVolume))
                     ELSE IF c.balance < 0
                          THEN StVolume(CDiv((127 + c.balance) * vol,
                                             kMaxChannelVolume * 127))
                          ELSE StVolume(CDiv(vol, kMaxChannelVolume))
         IN [c EXCEPT !.volL = StVolume(CDiv(volL * c.faderL, 255)),
                      !.volR = StVolume(CDiv(volR * c.faderR, 255))]
    ELSE [c EXCEPT !.volL = 0, !.volR = 0]

ChannelSetVolume(c, volume, settings) ==
    updateChannelVolumes([c EXCEPT !.volume = volume], settings)
ChannelSetBalance(c, balance, settings) ==
    updateChannelVolumes([c EXCEPT !.balance = balance], settings)
ChannelSetFaderL(c, faderL, settings) ==
    updateChannelVolumes([c EXCEPT !.faderL = faderL], settings)
ChannelSetFaderR(c, faderR, settings) ==
    updateChannelVolumes([c EXCEPT !.faderR = faderR], settings)

ChannelSetRate(c, rate) == [c EXCEPT !.converter.rate = rate]
ChannelGetRate(c) == c.converter.rate
ChannelResetRate(c) == [c EXCEPT !.converter.rate = c.stream.rate]

\* faulty variant of Channel::pause: an unpause counts down whatever the depth
ChannelPauseUnguarded(c, paused, t) ==
    IF paused
    THEN [c EXCEPT !.pauseLevel = c.pauseLevel + 1,
                   !.pauseStartTime =
                       IF c.pauseLevel + 1 = 1 THEN t ELSE c.pauseStartTime]
    ELSE IF c.pauseLevel - 1 = 0
         THEN [c EXCEPT !.pauseLevel = 0,
                        !.pauseTime = Wrap(t - c.pauseStartTime),
                        !.pauseStartTime = 0]
         ELSE [c EXCEPT !.pauseLevel = c.pauseLevel - 1]

\* faulty variant of Channel::pause: a flag, not a count
ChannelPauseFlat(c, paused, t) ==
    IF paused
    THEN [c EXCEPT !.pauseLevel = 1,
                   !.pauseStartTime = IF c.pauseLevel = 0 THEN t ELSE c.pauseStartTime]
    ELSE IF c.pauseLevel > 0
         THEN [c EXCEPT !.pauseLevel = 0,
                        !.pauseTime = Wrap(t - c.pauseStartTime),
                        !.pauseStartTime = 0]
         ELSE c

ChannelPause(c, paused, t) ==
    IF paused
    THEN [c EXCEPT !.pauseLevel = c.pauseLevel + 1,
                   !.pauseStartTime =
                       IF c.pauseLevel + 1 = 1 THEN t ELSE c.pauseStartTime]
    ELSE IF c.pauseLevel > 0
         THEN IF c.pauseLevel - 1 = 0
              THEN [c EXCEPT !.pauseLevel = 0,
                             !.pauseTime = Wrap(t - c.pauseStartTime),
                             !.pauseStartTime = 0]
              ELSE [c EXCEPT !.pauseLevel = c.pauseLevel - 1]
         ELSE c

\* The Timestamp returned: the frames added by addFrames and the
\* milliseconds added by addMsecs, at the output rate.
ZeroTimestamp == <<0, 0>>
\* faulty variant of ChannelGetElapsedTime: the estimate is limited to the
\* frames decoded
ChannelGetElapsedTimeClamped(c, t) ==
    IF c.mixerTimeStamp = 0
    THEN ZeroTimestamp
    ELSE LET delta == IF isPaused(c)
                      THEN Wrap(c.pauseStartTime - c.mixerTimeStamp)
                      ELSE Wrap(Wrap(t - c.mixerTimeStamp) - c.pauseTime)
         IN IF delta > 0 THEN <<c.samplesDecoded, 0>> ELSE <<c.samplesConsumed, 0>>

ChannelGetElapsedTime(c, t) ==
    IF c.mixerTimeStamp = 0
    THEN ZeroTimestamp
    ELSE LET delta == IF isPaused(c)
                      THEN Wrap(c.pauseStartTime - c.mixerTimeStamp)
                      ELSE Wrap(Wrap(t - c.mixerTimeStamp) - c.pauseTime)
         IN <<c.samplesConsumed, delta>>

\* endOfStream() of the infinitely looping wrapper Channel::loop builds
\* (LoopingAudioStream with loops = 0): it never ends
LoopingEndOfStream == FALSE

\* faulty variant of ChannelLoop: the wrapper always disposes of the
\* original
ChannelLoopOwns(c) ==
    IF c.stream.rewindable /\ ~c.stream.looping
    THEN [c EXCEPT !.stream = [c.stream EXCEPT
                                   !.looping = TRUE,
                                   !.innerDispose = TRUE,
                                   !.dispose = TRUE,
                                   !.eos = FALSE]]
    ELSE c

\* Channel::loop: a rewindable stream is moved into a LoopingAudioStream
\* (loops = 0) that keeps the original's dispose flag; the channel owns the
\* wrapper.  The record describes the original stream and one wrapper: a
\* stream already wrapped stays as it is (a wrapper around the wrapper would
\* loop and dispose in the same way).
ChannelLoop(c) ==
    IF c.stream.rewindable /\ ~c.stream.looping
    THEN [c EXCEPT !.stream = [c.stream EXCEPT
                                   !.looping = TRUE,
                                   !.innerDispose = c.stream.dispose,
                                   !.dispose = TRUE,
                                   !.eos = LoopingEndOfStream]]
    ELSE c

\* Channel::mix.  `out` is what RateConverter::convert did: the frames it
\* produced and the state it left the stream and itself in.
\* faulty variant of ChannelMixes: the stream is converted whether it has
\* data or not
ChannelMixesAlways(c) == TRUE
ChannelMixes(c) == ~c.stream.eod \/ c.converter.drain
\* faulty variant of Channel::mix: the pause time outlives the time stamp
ChannelMixKeepsPauseTime(c, out, t) ==
    IF ChannelMixes(c)
    THEN [c EXCEPT !.samplesConsumed = c.samplesDecoded,
                   !.mixerTimeStamp = t,
                   !.samplesDecoded = Wrap(c.samplesDecoded + out.frames),
                   !.stream.eod = out.eod,
                   !.stream.eos = IF c.stream.looping THEN LoopingEndOfStream ELSE out.eos,
                   !.converter.drain = out.drain]
    ELSE c

ChannelMix(c, out, t) ==
    IF ChannelMixes(c)
    THEN [c EXCEPT !.samplesConsumed = c.samplesDecoded,
                   !.mixerTimeStamp = t,
                   !.pauseTime = 0,
                   !.samplesDecoded = Wrap(c.samplesDecoded + out.frames),
                   !.stream.eod = out.eod,
                   !.stream.eos = IF c.stream.looping THEN LoopingEndOfStream ELSE out.eos,
                   !.converter.drain = out.drain]
    ELSE c
ChannelMixResult(c, out) == IF ChannelMixes(c) THEN out.frames ELSE 0

\* Channel::Channel
NewChannel(type, sid, stream, autofree, id, permanent) ==
    [used |-> TRUE,
     type |-> type, handle |-> InvalidHandle, permanent |-> permanent,
     pauseLevel |-> 0, id |-> id,
     volume |-> kMaxChannelVolume, balance |-> 0, faderL |-> 255, faderR |-> 255,
     volL |-> 0, volR |-> 0,
     samplesConsumed |-> 0, samplesDecoded |-> 0, mixerTimeStamp |-> 0,
     pauseStartTime |-> 0, pauseTime |-> 0,
     converter |-> [rate |-> stream.rate, drain |-> FALSE],
     stream |-> [sid |-> sid, dispose |-> autofree, innerDispose |-> FALSE,
                 rewindable |-> stream.rewindable, looping |-> FALSE,
                 rate |-> stream.rate, eod |-> stream.eod, eos |-> stream.eos]]

\* delete of an AudioStream object
DeleteStream(hp, sid) ==
    [hp EXCEPT ![sid] = IF hp[sid] = "live" THEN "freed" ELSE "doublefree"]

\* faulty variant of DeleteChannel: the stream is deleted whoever owns it
DeleteChannelAlways(hp, c) == DeleteStream(hp, c.stream.sid)

\* Channel::~Channel: the DisposablePtr deletes what it owns
DeleteChannel(hp, c) ==
    IF c.stream.looping
    THEN IF c.stream.innerDispose THEN DeleteStream(hp, c.stream.sid) ELSE hp
    ELSE IF c.stream.dispose THEN DeleteStream(hp, c.stream.sid) ELSE hp

\* the heap after the channels of the slots in S are deleted
RECURSIVE DeleteChannels(_, _, _)
DeleteChannels(hp, chs, S) ==
    IF S = {} THEN hp
    ELSE LET i == CHOOSE j \in S : \A k \in S : j <= k
         IN DeleteChannels(DeleteChannel(hp, chs[i]), chs, S \ {i})

----------------------------------------------------------------------------
(* MixerImpl                                                               *)

Occupied(i) == channels[i] # NoChannel
Index(h) == h % NUM_CHANNELS

\* faulty variant of HandleValid: any handle of an occupied slot is taken
HandleValidAnyGeneration(h) == Occupied(Index(h))

\* the test every handle-keyed method makes
HandleValid(h) == Occupied(Index(h)) /\ channels[Index(h)].handle = h
\* the branch a handle-keyed method takes
Branch(h) == IF HandleValid(h) THEN "valid" ELSE "stale"

\* a call: the method, the branch it took, what it returned (for playStream
\* the stream passed and its dispose flag) and the slots it mixed
Call(op, res, ret, mixed) ==
    [op |-> op, res |-> res, ret |-> ret, mixed |-> mixed]

\* MixerImpl::MixerImpl
Constructed ==
    /\ channels = [i \in Slots |-> NoChannel]
    /\ handleSeed = 0
    /\ mixerReady = FALSE
    /\ soundTypeSettings = [t \in SoundTypes |-> [mute |-> FALSE, volume |-> kMaxMixerVolume]]
    /\ heap = [s \in Sids |-> "none"]
    /\ hvar = InvalidHandle
    /\ now = 1
    /\ aborted = FALSE
    /\ pending = NoCall
    /\ last = Call("new", "", <<>>, {})

\* a mixer just constructed, in a build with assert() compiled in
Init == Constructed /\ ndebug = FALSE

\* a mixer just constructed, in a build with or without NDEBUG
InitAnyBuild == Constructed /\ ndebug \in BOOLEAN

\* the mixer exists and the program runs: no assert() has failed and
\* MixerImpl::~MixerImpl has not run
Alive == ~aborted /\ last.op # "~MixerImpl"

SetReady(ready) ==
    /\ Alive
    /\ mixerReady' = ready
    /\ last' = Call("setReady", "", <<>>, {})
    /\ UNCHANGED <<channels, handleSeed, soundTypeSettings, heap, hvar, now, aborted, ndebug, pending>>

FreeSlots == {i \in Slots : ~Occupied(i)}
\* faulty variant of FirstFreeSlot: the highest free slot
FirstFreeSlotHighest == CHOOSE i \in FreeSlots : \A j \in FreeSlots : i >= j
FirstFreeSlot == CHOOSE i \in FreeSlots : \A j \in FreeSlots : i <= j

\* faulty variants of NewHandle: the seed left out, and the seed not scaled
NewHandleNoSeed(index) == index
NewHandleUnscaled(index) == Wrap(index + handleSeed)

\* MixerImpl::insertChannel, the handle it builds
NewHandle(index) == Wrap(index + handleSeed * NUM_CHANNELS)

\* the streams not yet created; a caller's new stream takes the first
Unborn == {s \in Sids : heap[s] = "none"}
NextSid == CHOOSE s \in Unborn : \A r \in Unborn : s <= r

\* faulty variant of DuplicateId: only the first slot is looked at
DuplicateIdFirstSlot(id) == id # -1 /\ Occupied(0) /\ channels[0].id = id

\* the duplicate test of MixerImpl::playStream
DuplicateId(id) == id # -1 /\ \E i \in Slots : Occupied(i) /\ channels[i].id = id

\* faulty variants of InsertChannel: the seed advanced although no slot is
\* free, and the caller's handle written although no slot is free
InsertChannelSeedAlways(useHandle, chan, hp, ret) ==
    IF FreeSlots = {}
    THEN /\ heap' = DeleteChannel(hp, chan)
         /\ last' = Call("playStream", "full", ret, {})
         /\ handleSeed' = Wrap(handleSeed + 1)
         /\ UNCHANGED <<channels, hvar>>
    ELSE LET index == FirstFreeSlot
             chanHandle == NewHandle(index)
         IN /\ channels' = [channels EXCEPT
                               ![index] = [chan EXCEPT !.handle = chanHandle]]
            /\ handleSeed' = Wrap(handleSeed + 1)
            /\ hvar' = IF useHandle THEN chanHandle ELSE hvar
            /\ heap' = hp
            /\ last' = Call("playStream", "ok", ret, {})
InsertChannelWritesHandle(useHandle, chan, hp, ret) ==
    IF FreeSlots = {}
    THEN /\ heap' = DeleteChannel(hp, chan)
         /\ last' = Call("playStream", "full", ret, {})
         /\ hvar' = IF useHandle THEN InvalidHandle ELSE hvar
         /\ UNCHANGED <<channels, handleSeed>>
    ELSE LET index == FirstFreeSlot
             chanHandle == NewHandle(index)
         IN /\ channels' = [channels EXCEPT
                               ![index] = [chan EXCEPT !.handle = chanHandle]]
            /\ handleSeed' = Wrap(handleSeed + 1)
            /\ hvar' = IF useHandle THEN chanHandle ELSE hvar
            /\ heap' = hp
            /\ last' = Call("playStream", "ok", ret, {})

\* MixerImpl::insertChannel.  useHandle says whether the handle pointer is
\* non-null; hp is the heap with the caller's stream in it; ret describes
\* the stream for the call record.
InsertChannel(useHandle, chan, hp, ret) ==
    IF FreeSlots = {}
    THEN /\ heap' = DeleteChannel(hp, chan)
         /\ last' = Call("playStream", "full", ret, {})
         /\ UNCHANGED <<channels, handleSeed, hvar>>
    ELSE LET index == FirstFreeSlot
             chanHandle == NewHandle(index)
         IN /\ channels' = [channels EXCEPT
                               ![index] = [chan EXCEPT !.handle = chanHandle]]
            /\ handleSeed' = Wrap(handleSeed + 1)
            /\ hvar' = IF useHandle THEN chanHandle ELSE hvar
            /\ heap' = hp
            /\ last' = Call("playStream", "ok", ret, {})

\* faulty variant of RejectDuplicate: the stream deleted whoever owns it
RejectDuplicateDeletes(hp, sid, autofree) ==
    /\ heap' = DeleteStream(hp, sid)
    /\ last' = Call("playStream", "dup", <<sid, autofree>>, {})
    /\ UNCHANGED <<channels, handleSeed, hvar>>

\* MixerImpl::playStream, the id is that of a live channel: the stream is
\* deleted if the mixer was to dispose of it, and nothing else happens
RejectDuplicate(hp, sid, autofree) ==
    /\ heap' = IF autofree THEN DeleteStream(hp, sid) ELSE hp
    /\ last' = Call("playStream", "dup", <<sid, autofree>>, {})
    /\ UNCHANGED <<channels, handleSeed, hvar>>

\* faulty variant of PlayStream: the readiness is asserted before the
\* stream is tested for null
PlayStreamReadinessFirst(type, useHandle, stream, id, volume, balance, autofree, permanent) ==
    /\ Alive
    /\ IF ~mixerReady /\ ~ndebug
       THEN /\ aborted' = TRUE
            /\ last' = Call("playStream", IF stream = NoStream THEN "null" ELSE "assert",
                            <<-1, autofree>>, {})
            /\ UNCHANGED <<channels, handleSeed, mixerReady, soundTypeSettings,
                           heap, hvar, now, ndebug, pending>>
       ELSE IF stream = NoStream
       THEN /\ last' = Call("playStream", "null", <<-1, autofree>>, {})
            /\ UNCHANGED <<channels, handleSeed, mixerReady, soundTypeSettings,
                           heap, hvar, now, aborted, ndebug, pending>>
       ELSE /\ Unborn # {}
            /\ LET sid == NextSid
                   born == [heap EXCEPT ![sid] = "live"]
                   chan0 == NewChannel(type, sid, stream, autofree, id, permanent)
                   chan1 == ChannelSetVolume(chan0, volume, soundTypeSettings)
                   chan2 == ChannelSetBalance(chan1, balance, soundTypeSettings)
               IN IF DuplicateId(id)
                  THEN /\ RejectDuplicate(born, sid, autofree)
                       /\ UNCHANGED <<mixerReady, soundTypeSettings, now, aborted, ndebug, pending>>
                  ELSE /\ InsertChannel(useHandle, chan2, born, <<sid, autofree>>)
                       /\ UNCHANGED <<mixerReady, soundTypeSettings, now, aborted, ndebug, pending>>

\* MixerImpl::playStream.  stream is NoStream (a null pointer) or the
\* description [rate, rewindable, eod, eos] of a stream the caller has just
\* created.  assert(_mixerReady) ends the program unless the build defines
\* NDEBUG, and then the call goes on as if the mixer were ready.
PlayStream(type, useHandle, stream, id, volume, balance, autofree, permanent) ==
    /\ Alive
    /\ IF stream = NoStream
       THEN /\ last' = Call("playStream", "null", <<-1, autofree>>, {})
            /\ UNCHANGED <<channels, handleSeed, mixerReady, soundTypeSettings,
                           heap, hvar, now, aborted, ndebug, pending>>
       ELSE /\ Unborn # {}
            /\ LET sid == NextSid
                   born == [heap EXCEPT ![sid] = "live"]
                   chan0 == NewChannel(type, sid, stream, autofree, id, permanent)
                   chan1 == ChannelSetVolume(chan0, volume, soundTypeSettings)
                   chan2 == ChannelSetBalance(chan1, balance, soundTypeSettings)
               IN IF ~mixerReady /\ ~ndebug
                  THEN /\ aborted' = TRUE
                       /\ heap' = born
                       /\ last' = Call("playStream", "assert", <<sid, autofree>>, {})
                       /\ UNCHANGED <<channels, handleSeed, mixerReady,
                                      soundTypeSettings, hvar, now, ndebug, pending>>
                  ELSE IF DuplicateId(id)
                  THEN /\ RejectDuplicate(born, sid, autofree)
                       /\ UNCHANGED <<mixerReady, soundTypeSettings, now, aborted, ndebug, pending>>
                  ELSE /\ InsertChannel(useHandle, chan2, born, <<sid, autofree>>)
                       /\ UNCHANGED <<mixerReady, soundTypeSettings, now, aborted, ndebug, pending>>

\* the states convert can leave a stream and the converter in
Avail == [eod |-> FALSE, eos |-> FALSE, drain |-> FALSE]
Starved == [eod |-> TRUE, eos |-> FALSE, drain |-> FALSE]
StarvedResidue == [eod |-> TRUE, eos |-> FALSE, drain |-> TRUE]
EndedResidue == [eod |-> TRUE, eos |-> TRUE, drain |-> TRUE]
Ended == [eod |-> TRUE, eos |-> TRUE, drain |-> FALSE]
AllPhases == {Avail, Starved, StarvedResidue, EndedResidue, Ended}

\* what RateConverter::convert can do for channel c when asked for frames
\* out of FramesSet, ending in a state of Phases: a stream that has ended
\* stays ended, an ended stream has no data, a stream without data is not
\* read, and the converter holds residue only once the stream has no more
\* data.
ConvertOutcomes(c, FramesSet, Phases) ==
    IF ~ChannelMixes(c)
    THEN {[frames |-> 0, eod |-> c.stream.eod, eos |-> c.stream.eos,
           drain |-> c.converter.drain]}
    ELSE {[frames |-> n, eod |-> ph.eod, eos |-> ph.eos, drain |-> ph.drain] :
            n \in {m \in FramesSet : c.samplesDecoded + m <= MaxDecoded},
            ph \in {q \in Phases :
                      /\ c.stream.eod => (q.eod = c.stream.eod /\ q.eos = c.stream.eos)
                      /\ c.stream.looping => ~q.eos}}

RECURSIVE OutcomeFns(_, _, _)
OutcomeFns(S, FramesSet, Phases) ==
    IF S = {} THEN {<<>>}
    ELSE LET i == CHOOSE j \in S : \A k \in S : j <= k
         IN {(i :> o) @@ f : o \in ConvertOutcomes(channels[i], FramesSet, Phases),
                             f \in OutcomeFns(S \ {i}, FramesSet, Phases)}

\* faulty variant of Finished: the sweep passes over paused channels
FinishedUnpaused ==
    {i \in Slots : Occupied(i) /\ isFinished(channels[i]) /\ ~isPaused(channels[i])}

\* the slots the sweep of mixCallback frees, and those it asks to mix
Finished == {i \in Slots : Occupied(i) /\ isFinished(channels[i])}
ToMix == {i \in Slots : Occupied(i) /\ ~isFinished(channels[i]) /\ ~isPaused(channels[i])}

\* faulty variant of MaxFrames: the frames of the lowest slot mixed
MaxFramesFirst(S, out) ==
    IF S = {} THEN 0
    ELSE LET i == CHOOSE j \in S : \A k \in S : j <= k
         IN ChannelMixResult(channels[i], out[i])

RECURSIVE MaxFrames(_, _)
MaxFrames(S, out) ==
    IF S = {} THEN 0
    ELSE LET i == CHOOSE j \in S : TRUE
         IN Max(ChannelMixResult(channels[i], out[i]), MaxFrames(S \ {i}, out))

\* faulty variant of MixCallback: the ready flag is left as it is
MixCallbackKeepsReady(out) ==
    /\ Alive
    /\ channels' = [i \in Slots |->
                      IF i \in Finished THEN NoChannel
                      ELSE IF i \in ToMix THEN ChannelMix(channels[i], out[i], now)
                      ELSE channels[i]]
    /\ heap' = DeleteChannels(heap, channels, Finished)
    /\ last' = Call("mixCallback", "", <<MaxFrames(ToMix, out)>>, ToMix)
    /\ UNCHANGED <<handleSeed, mixerReady, soundTypeSettings, hvar, now, aborted,
                   ndebug, pending>>

\* MixerImpl::mixCallback; out[i] is what convert does for slot i
MixCallback(out) ==
    /\ Alive
    /\ mixerReady' = TRUE
    /\ channels' = [i \in Slots |->
                      IF i \in Finished THEN NoChannel
                      ELSE IF i \in ToMix THEN ChannelMix(channels[i], out[i], now)
                      ELSE channels[i]]
    /\ heap' = DeleteChannels(heap, channels, Finished)
    /\ last' = Call("mixCallback", "", <<MaxFrames(ToMix, out)>>, ToMix)
    /\ UNCHANGED <<handleSeed, soundTypeSettings, hvar, now, aborted, ndebug, pending>>

\* the three stop methods free the slots in S
StopSlots(S) ==
    /\ channels' = [i \in Slots |-> IF i \in S THEN NoChannel ELSE channels[i]]
    /\ heap' = DeleteChannels(heap, channels, S)

StopAll ==
    /\ Alive
    /\ StopSlots({i \in Slots : Occupied(i) /\ ~isPermanent(channels[i])})
    /\ last' = Call("stopAll", "", <<>>, {})
    /\ UNCHANGED <<handleSeed, mixerReady, soundTypeSettings, hvar, now, aborted, ndebug, pending>>

\* MixerImpl::~MixerImpl deletes every channel, the permanent ones too
Teardown ==
    /\ Alive
    /\ StopSlots({i \in Slots : Occupied(i)})
    /\ last' = Call("~MixerImpl", "", <<>>, {})
    /\ UNCHANGED <<handleSeed, mixerReady, soundTypeSettings, hvar, now, aborted, ndebug, pending>>

StopID(id) ==
    /\ Alive
    /\ StopSlots({i \in Slots : Occupied(i) /\ channels[i].id = id})
    /\ last' = Call("stopID", "", <<>>, {})
    /\ UNCHANGED <<handleSeed, mixerReady, soundTypeSettings, hvar, now, aborted, ndebug, pending>>

StopHandle(h) ==
    /\ Alive
    /\ StopSlots(IF HandleValid(h) THEN {Index(h)} ELSE {})
    /\ last' = Call("stopHandle", Branch(h), <<>>, {})
    /\ UNCHANGED <<handleSeed, mixerReady, soundTypeSettings, hvar, now, aborted, ndebug, pending>>

\* the handle-keyed setters: f is applied to the channel of a valid handle
OnHandle(h, f(_)) ==
    channels' = IF HandleValid(h)
                THEN [channels EXCEPT ![Index(h)] = f(channels[Index(h)])]
                ELSE channels

HandleCall(op, h) ==
    /\ last' = Call(op, Branch(h), <<>>, {})
    /\ UNCHANGED <<handleSeed, mixerReady, soundTypeSettings, heap, hvar, now, aborted, ndebug, pending>>

SetChannelVolume(h, volume) ==
    /\ Alive
    /\ LET f(c) == ChannelSetVolume(c, volume, soundTypeSettings) IN OnHandle(h, f)
    /\ HandleCall("setChannelVolume", h)

SetChannelBalance(h, balance) ==
    /\ Alive
    /\ LET f(c) == ChannelSetBalance(c, balance, soundTypeSettings) IN OnHandle(h, f)
    /\ HandleCall("setChannelBalance", h)

SetChannelFaderL(h, faderL) ==
    /\ Alive
    /\ LET f(c) == ChannelSetFaderL(c, faderL, soundTypeSettings) IN OnHandle(h, f)
    /\ HandleCall("setChannelFaderL", h)

SetChannelFaderR(h, faderR) ==
    /\ Alive
    /\ LET f(c) == ChannelSetFaderR(c, faderR, soundTypeSettings) IN OnHandle(h, f)
    /\ HandleCall("setChannelFaderR", h)

SetChannelRate(h, rate) ==
    /\ Alive
    /\ LET f(c) == ChannelSetRate(c, rate) IN OnHandle(h, f)
    /\ HandleCall("setChannelRate", h)

ResetChannelRate(h) ==
    /\ Alive
    /\ OnHandle(h, ChannelResetRate)
    /\ HandleCall("resetChannelRate", h)

LoopChannel(h) ==
    /\ Alive
    /\ OnHandle(h, ChannelLoop)
    /\ HandleCall("loopChannel", h)

\* the branch Channel::pause takes
PauseBranch(c, paused) ==
    IF paused THEN "paused" ELSE IF c.pauseLevel > 0 THEN "unpaused" ELSE "ignored"

PauseHandle(h, paused) ==
    /\ Alive
    /\ LET f(c) == ChannelPause(c, paused, now) IN OnHandle(h, f)
    /\ last' = Call("pauseHandle",
                    IF HandleValid(h) THEN PauseBranch(channels[Index(h)], paused)
                    ELSE "stale",
                    <<paused>>, {})
    /\ UNCHANGED <<handleSeed, mixerReady, soundTypeSettings, heap, hvar, now, aborted, ndebug, pending>>

PauseAll(paused) ==
    /\ Alive
    /\ channels' = [i \in Slots |-> IF Occupied(i)
                                    THEN ChannelPause(channels[i], paused, now)
                                    ELSE channels[i]]
    /\ last' = Call("pauseAll", "", <<paused>>, {})
    /\ UNCHANGED <<handleSeed, mixerReady, soundTypeSettings, heap, hvar, now, aborted, ndebug, pending>>

\* MixerImpl::pauseID returns after the first slot whose channel has the id
WithId(id) == {i \in Slots : Occupied(i) /\ channels[i].id = id}
PauseID(id, paused) ==
    /\ Alive
    /\ channels' = IF WithId(id) = {} THEN channels
                   ELSE LET i == CHOOSE j \in WithId(id) : \A k \in WithId(id) : j <= k
                        IN [channels EXCEPT ![i] = ChannelPause(channels[i], paused, now)]
    /\ last' = Call("pauseID", "", <<paused>>, {})
    /\ UNCHANGED <<handleSeed, mixerReady, soundTypeSettings, heap, hvar, now, aborted, ndebug, pending>>

\* the queries: what each returns in the current state
getChannelVolume(h) == IF HandleValid(h) THEN channels[Index(h)].volume ELSE 0
getChannelBalance(h) == IF HandleValid(h) THEN channels[Index(h)].balance ELSE 0
getChannelFaderL(h) == IF HandleValid(h) THEN channels[Index(h)].faderL ELSE 0
getChannelFaderR(h) == IF HandleValid(h) THEN channels[Index(h)].faderR ELSE 0
getChannelRate(h) == IF HandleValid(h) THEN ChannelGetRate(channels[Index(h)]) ELSE 0
getElapsedTime(h) ==
    IF HandleValid(h) THEN ChannelGetElapsedTime(channels[Index(h)], now)
    ELSE ZeroTimestamp
getSoundID(h) == IF HandleValid(h) THEN channels[Index(h)].id ELSE 0
isSoundHandleActive(h) == HandleValid(h)
isSoundIDActive(id) == \E i \in Slots : Occupied(i) /\ channels[i].id = id
hasActiveChannelOfType(type) == \E i \in Slots : Occupied(i) /\ channels[i].type = type
isSoundTypeMuted(type) == soundTypeSettings[type].mute
getVolumeForSoundType(type) == soundTypeSettings[type].volume

QueryNames == {"getChannelVolume", "getChannelBalance", "getChannelFaderL",
               "getChannelFaderR", "getChannelRate", "getElapsedTime",
               "getSoundID", "isSoundHandleActive"}

QueryResult(op, h) ==
    CASE op = "getChannelVolume" -> <<getChannelVolume(h)>>
      [] op = "getChannelBalance" -> <<getChannelBalance(h)>>
      [] op = "getChannelFaderL" -> <<getChannelFaderL(h)>>
      [] op = "getChannelFaderR" -> <<getChannelFaderR(h)>>
      [] op = "getChannelRate" -> <<getChannelRate(h)>>
      [] op = "getElapsedTime" -> getElapsedTime(h)
      [] op = "getSoundID" -> <<getSoundID(h)>>
      [] op = "isSoundHandleActive" -> <<isSoundHandleActive(h)>>

\* a call of one of the handle-keyed queries
Query(op, h) ==
    /\ Alive
    /\ last' = Call(op, Branch(h), QueryResult(op, h), {})
    /\ UNCHANGED <<channels, handleSeed, mixerReady, soundTypeSettings, heap,
                   hvar, now, aborted, ndebug, pending>>

IsSoundIDActive(id) ==
    /\ Alive
    /\ last' = Call("isSoundIDActive", "", <<isSoundIDActive(id)>>, {})
    /\ UNCHANGED <<channels, handleSeed, mixerReady, soundTypeSettings, heap,
                   hvar, now, aborted, ndebug, pending>>

HasActiveChannelOfType(type) ==
    /\ Alive
    /\ last' = Call("hasActiveChannelOfType", "", <<hasActiveChannelOfType(type)>>, {})
    /\ UNCHANGED <<channels, handleSeed, mixerReady, soundTypeSettings, heap,
                   hvar, now, aborted, ndebug, pending>>

\* every channel of the type recomputes its gains
NotifyGlobalVolChange(type, settings) ==
    [i \in Slots |-> IF Occupied(i) /\ channels[i].type = type
                     THEN updateChannelVolumes(channels[i], settings)
                     ELSE channels[i]]

MuteSoundType(type, mute) ==
    /\ Alive
    /\ LET settings == [soundTypeSettings EXCEPT ![type].mute = mute]
       IN /\ soundTypeSettings' = settings
          /\ channels' = NotifyGlobalVolChange(type, settings)
    /\ last' = Call("muteSoundType", "", <<>>, {})
    /\ UNCHANGED <<handleSeed, mixerReady, heap, hvar, now, aborted, ndebug, pending>>

\* MixerImpl::muteSoundType takes no lock, so the callback can run between
\* its steps.  Its first step writes the mute flag.
MuteWrite(type, mute) ==
    /\ Alive
    /\ pending = NoCall
    /\ soundTypeSettings' = [soundTypeSettings EXCEPT ![type].mute = mute]
    /\ pending' = [op |-> "muteSoundType", type |-> type, i |-> 0]
    /\ last' = Call("muteSoundType", "", <<>>, {})
    /\ UNCHANGED <<channels, handleSeed, mixerReady, heap, hvar, now, aborted, ndebug>>

\* one turn of the loop of muteSoundType: the channel of slot i, if it is of
\* the type, recomputes its gains
MuteVisit ==
    /\ Alive
    /\ pending # NoCall
    /\ pending.op = "muteSoundType"
    /\ LET i == pending.i
       IN /\ channels' = IF Occupied(i) /\ channels[i].type = pending.type
                         THEN [channels EXCEPT
                                  ![i] = updateChannelVolumes(channels[i], soundTypeSettings)]
                         ELSE channels
          /\ pending' = IF i + 1 = NUM_CHANNELS THEN NoCall
                        ELSE [pending EXCEPT !.i = i + 1]
    /\ UNCHANGED <<handleSeed, mixerReady, soundTypeSettings, heap, hvar, now,
                   aborted, ndebug, last>>

\* The getters of the volume, balance, faders and rate of a channel take no
\* lock, so the callback and the locked calls of other threads can run
\* between their steps.  The first step tests the handle: the call returns
\* the default for a handle that is not valid, and goes on to read the
\* channel of one that is.
GetterNames == {"getChannelVolume", "getChannelBalance", "getChannelFaderL",
                "getChannelFaderR", "getChannelRate"}

GetterCheck(op, h) ==
    /\ Alive
    /\ pending = NoCall
    /\ IF HandleValid(h)
       THEN /\ pending' = [op |-> op, h |-> h, i |-> Index(h)]
            /\ UNCHANGED last
       ELSE /\ last' = Call(op, "stale", QueryResult(op, h), {})
            /\ UNCHANGED pending
    /\ UNCHANGED <<channels, handleSeed, mixerReady, soundTypeSettings, heap, hvar,
                   now, aborted, ndebug>>

\* what a read of the memory of a deleted Channel can give
Garbage == {<<0>>, <<77>>}

\* The second step reads the field through _channels[index].  If the channel
\* tested is still there the call returns its value.  If it was deleted in
\* between, the behaviour is undefined: the call reads the deleted Channel
\* through the pointer it loaded for the test, or loads the pointer again
\* and reads the channel that has taken the slot, or dereferences null.
GetterRead ==
    /\ Alive
    /\ pending # NoCall
    /\ pending.op \in GetterNames
    /\ LET op == pending.op
           h == pending.h
           i == pending.i
       IN IF HandleValid(h)
          THEN /\ last' = Call(op, "valid", QueryResult(op, h), {})
               /\ UNCHANGED aborted
          ELSE \/ /\ \E g \in Garbage : last' = Call(op, "destroyed", g, {})
                  /\ UNCHANGED aborted
               \/ /\ Occupied(i)
                  /\ last' = Call(op, "other", QueryResult(op, channels[i].handle), {})
                  /\ UNCHANGED aborted
               \/ /\ ~Occupied(i)
                  /\ last' = Call(op, "null", <<>>, {})
                  /\ aborted' = TRUE
    /\ pending' = NoCall
    /\ UNCHANGED <<channels, handleSeed, mixerReady, soundTypeSettings, heap, hvar,
                   now, ndebug>>

\* faulty variant of SetVolumeForSoundType: the volume is stored as passed
SetVolumeForSoundTypeUnclipped(type, volume) ==
    /\ Alive
    /\ LET settings == [soundTypeSettings EXCEPT ![type].volume = volume]
       IN /\ soundTypeSettings' = settings
          /\ channels' = NotifyGlobalVolChange(type, settings)
    /\ last' = Call("setVolumeForSoundType", "", <<>>, {})
    /\ UNCHANGED <<handleSeed, mixerReady, heap, hvar, now, aborted, ndebug, pending>>

SetVolumeForSoundType(type, volume) ==
    /\ Alive
    /\ LET settings == [soundTypeSettings EXCEPT
                            ![type].volume = CLIP(volume, 0, kMaxMixerVolume)]
       IN /\ soundTypeSettings' = settings
          /\ channels' = NotifyGlobalVolChange(type, settings)
    /\ last' = Call("setVolumeForSoundType", "", <<>>, {})
    /\ UNCHANGED <<handleSeed, mixerReady, heap, hvar, now, aborted, ndebug, pending>>

\* the clock advances
Tick ==
    /\ Alive
    /\ now < MaxTime
    /\ now' = now + 1
    /\ UNCHANGED <<channels, handleSeed, mixerReady, soundTypeSettings, heap,
                   hvar, aborted, ndebug, pending, last>>

----------------------------------------------------------------------------
(* Slot and handle management: play, the three stops and the sweep of the  *)
(* callback, with streams that end at any time.                            *)

Ids == {-1, 7}
FreshStream == [rate |-> 22050, rewindable |-> FALSE, eod |-> FALSE, eos |-> FALSE]
EndedStream == [rate |-> 22050, rewindable |-> FALSE, eod |-> TRUE, eos |-> TRUE]

\* Engine-owned, non-permanent streams.
NextPlay ==
    \E useHandle \in BOOLEAN, id \in Ids :
        PlayStream("plain", useHandle, FreshStream, id, kMaxChannelVolume, 0,
                   TRUE, FALSE)

NextPlayNull ==
    PlayStream("plain", TRUE, NoStream, -1, kMaxChannelVolume, 0, TRUE, FALSE)

NextMix == \E out \in OutcomeFns(ToMix, {0}, {Avail, Ended}) : MixCallback(out)

Next ==
    \/ NextPlay
    \/ NextPlayNull
    \/ NextMix
    \/ StopAll
    \/ \E id \in Ids : StopID(id)
    \/ \E h \in HandlesAndInvalid : StopHandle(h)

Spec == Init /\ [][Next]_vars

----------------------------------------------------------------------------
(* Stream ownership: engine-owned and caller-owned streams, with and       *)
(* without an id.                                                          *)

NextPlayOwn ==
    \E id \in Ids, autofree \in BOOLEAN :
        PlayStream("plain", TRUE, FreshStream, id, kMaxChannelVolume, 0,
                   autofree, FALSE)

NextOwn ==
    \/ NextPlayOwn
    \/ NextMix
    \/ StopHandle(hvar)
    \/ StopID(7)
    \/ StopAll
    \/ Teardown

SpecOwn == Init /\ [][NextOwn]_vars

----------------------------------------------------------------------------
(* Readiness: plays before and after the backend has marked the mixer      *)
(* ready, in builds with and without assert().                             *)

NextPlayReady ==
    \E useHandle \in BOOLEAN :
        PlayStream("plain", useHandle, FreshStream, -1, kMaxChannelVolume, 0,
                   TRUE, FALSE)

NextReady ==
    \/ \E ready \in BOOLEAN : SetReady(ready)
    \/ NextPlayReady
    \/ NextPlayNull
    \/ NextMix
    \/ StopAll

SpecReady == InitAnyBuild /\ [][NextReady]_vars

----------------------------------------------------------------------------
(* Calls with handles that name no live channel: handles never issued,     *)
(* handles of channels stopped or swept, and handles whose slot has been   *)
(* given to a newer channel.                                               *)

\* no live channel carries handle h
StaleHandle(h) == \A i \in Slots : ~(Occupied(i) /\ channels[i].handle = h)

\* every play is of the same kind of stream; the caller keeps the handle of
\* some of them in its handle variable
NextPlayOps ==
    \E useHandle \in BOOLEAN :
        PlayStream("sfx", useHandle, FreshStream, -1, kMaxChannelVolume, 50,
                   TRUE, FALSE)

\* every stream gives one frame to each callback and does not end
NextMixOps == \E out \in OutcomeFns(ToMix, {1}, {Avail}) : MixCallback(out)

\* the handle-keyed methods that change a channel and leave it in its slot
MutatorCall(h) ==
    \/ \E paused \in BOOLEAN : PauseHandle(h, paused)
    \/ SetChannelVolume(h, 100)
    \/ SetChannelBalance(h, -50)
    \/ SetChannelFaderL(h, 100)
    \/ SetChannelFaderR(h, 100)
    \/ SetChannelRate(h, 11025)
    \/ ResetChannelRate(h)
    \/ LoopChannel(h)

MutatorNames == {"stopHandle", "pauseHandle", "setChannelVolume",
                 "setChannelBalance", "setChannelFaderL", "setChannelFaderR",
                 "setChannelRate", "resetChannelRate", "loopChannel"}

\* the handle-keyed calls are made with the handle the caller kept: the
\* queries and stopHandle whatever it names, the others once it names no
\* live channel
NextOps ==
    \/ NextPlayOps
    \/ NextMixOps
    \/ StopHandle(hvar)
    \/ StaleHandle(hvar) /\ MutatorCall(hvar)
    \/ \E op \in QueryNames : Query(op, hvar)

SpecOps == Init /\ [][NextOps]_vars

----------------------------------------------------------------------------
(* Permanent channels: plays with and without the permanent flag, the      *)
(* stops, the sweep and pauses.                                            *)

\* no pause would take a channel beyond the depth explored
PauseBounded == \A i \in Slots : Occupied(i) => channels[i].pauseLevel < MaxPause

NextPlayPerm ==
    \E permanent \in BOOLEAN :
        PlayStream("plain", TRUE, FreshStream, -1, kMaxChannelVolume, 0,
                   TRUE, permanent)

NextPerm ==
    \/ NextPlayPerm
    \/ NextMix
    \/ StopAll
    \/ StopID(-1)
    \/ StopHandle(hvar)
    \/ PauseBounded /\ PauseAll(TRUE)

SpecPerm == Init /\ [][NextPerm]_vars

----------------------------------------------------------------------------
(* Pausing: nested pauses and unpauses by handle, by id and of every       *)
(* channel, between callbacks.                                             *)

NextPlayPause ==
    \E id \in Ids :
        PlayStream("plain", TRUE, FreshStream, id, kMaxChannelVolume, 0,
                   TRUE, FALSE)

\* no stream ends
NextMixPause == \E out \in OutcomeFns(ToMix, {0}, {Avail}) : MixCallback(out)

NextPause ==
    \/ NextPlayPause
    \/ NextMixPause
    \/ \E paused \in BOOLEAN : (paused => PauseBounded) /\ PauseHandle(hvar, paused)
    \/ \E id \in Ids, paused \in BOOLEAN : (paused => PauseBounded) /\ PauseID(id, paused)
    \/ \E paused \in BOOLEAN : (paused => PauseBounded) /\ PauseAll(paused)

SpecPause == Init /\ [][NextPause]_vars

----------------------------------------------------------------------------
(* Time: one sound at a time, paused and unpaused while the clock runs     *)
(* and the callback mixes it.                                              *)

\* the caller plays a sound when nothing else plays
NextPlayTime ==
    /\ \A i \in Slots : ~Occupied(i)
    /\ PlayStream("plain", TRUE, FreshStream, -1, kMaxChannelVolume, 0, TRUE, FALSE)

NextTime ==
    \/ NextPlayTime
    \/ NextMixPause
    \/ Tick
    \/ StopHandle(hvar)
    \/ \E paused \in BOOLEAN : (paused => PauseBounded) /\ PauseHandle(hvar, paused)
    \/ \E paused \in BOOLEAN : (paused => PauseBounded) /\ PauseAll(paused)

SpecTime == Init /\ [][NextTime]_vars

----------------------------------------------------------------------------
(* The sweep: streams that end, with and without output left in the        *)
(* converter, in channels that are paused or not.  Channels leave the      *)
(* table by the sweep only and no pause is undone.                         *)

NextPlaySweep ==
    \E id \in Ids :
        PlayStream("plain", TRUE, FreshStream, id, kMaxChannelVolume, 0, TRUE, FALSE)

NextMixSweep ==
    \E out \in OutcomeFns(ToMix, {0}, {Avail, Ended, EndedResidue}) : MixCallback(out)

NextSweep ==
    \/ NextPlaySweep
    \/ NextMixSweep
    \/ PauseBounded /\ PauseAll(TRUE)

SpecSweep == Init /\ [][NextSweep]_vars

----------------------------------------------------------------------------
(* Two threads: the engine thread makes one call at a time, the audio      *)
(* thread runs the callback whenever _mutex is free.  Every method that    *)
(* holds _mutex from its first statement to its return is one step;        *)
(* muteSoundType, which does not take it, is one step per statement.       *)

NextPlayThreads ==
    PlayStream("music", TRUE, FreshStream, -1, kMaxChannelVolume, 0, TRUE, FALSE)

NextThreads ==
    \/ pending = NoCall /\ NextPlayThreads
    \/ pending = NoCall /\ StopHandle(hvar)
    \/ pending = NoCall /\ \E volume \in {0, kMaxMixerVolume} :
                              SetVolumeForSoundType("music", volume)
    \/ \E mute \in BOOLEAN : MuteWrite("music", mute)
    \/ MuteVisit
    \/ NextMix

SpecThreads == Init /\ [][NextThreads]_vars

----------------------------------------------------------------------------
(* Gains: one music channel whose volume, balance and faders are set, and  *)
(* the volume and mute flag of its sound type and of another.              *)

GainVolumes == {0, 1, 100, 254, kMaxChannelVolume}
GainBalances == {-127, -126, -64, -1, 0, 1, 64, 126, 127}
GainFaders == {0, 1, 128, 254, 255}
GainTypeVolumes == {-1, 0, 1, 100, 255, kMaxMixerVolume, kMaxMixerVolume + 44}

NextPlayGain ==
    /\ \A i \in Slots : ~Occupied(i)
    /\ \E volume \in {100, kMaxChannelVolume}, balance \in {0, 64} :
          PlayStream("music", TRUE, FreshStream, -1, volume, balance, TRUE, FALSE)

NextGain ==
    \/ SetReady(TRUE)
    \/ NextPlayGain
    \/ \E volume \in GainVolumes : SetChannelVolume(hvar, volume)
    \/ \E balance \in GainBalances : SetChannelBalance(hvar, balance)
    \/ \E faderL \in GainFaders : SetChannelFaderL(hvar, faderL)
    \/ \E faderR \in GainFaders : SetChannelFaderR(hvar, faderR)
    \/ \E volume \in GainTypeVolumes : SetVolumeForSoundType("music", volume)
    \/ \E type \in {"music", "sfx"}, mute \in BOOLEAN : MuteSoundType(type, mute)

SpecGain == Init /\ [][NextGain]_vars

----------------------------------------------------------------------------
(* Sound types: channels of two types, and the volume and mute flag of     *)
(* both types set.                                                         *)

SetTypes == {"music", "sfx"}
SetTypeVolumes == {-1, 0, 100, kMaxMixerVolume, kMaxMixerVolume + 44}

NextPlayTypes ==
    \E type \in SetTypes, volume \in {100, kMaxChannelVolume} :
        PlayStream(type, TRUE, FreshStream, -1, volume, 0, TRUE, FALSE)

NextTypes ==
    \/ SetReady(TRUE)
    \/ NextPlayTypes
    \/ \E type \in SetTypes, volume \in SetTypeVolumes : SetVolumeForSoundType(type, volume)
    \/ \E type \in SetTypes, mute \in BOOLEAN : MuteSoundType(type, mute)

SpecTypes == Init /\ [][NextTypes]_vars

----------------------------------------------------------------------------
(* Placement: plays with several volumes and balances into a table whose   *)
(* slots are freed in any order.                                           *)

PlaceVolumes == {0, 200}
PlaceBalances == {-127, 30}

NextPlayPlace ==
    \E useHandle \in BOOLEAN, volume \in PlaceVolumes, balance \in PlaceBalances :
        PlayStream("sfx", useHandle, FreshStream, -1, volume, balance, TRUE, FALSE)

NextPlace ==
    \/ SetReady(TRUE)
    \/ NextPlayPlace
    \/ NextPlayNull
    \/ StopHandle(hvar)
    \/ \E i \in Slots : Occupied(i) /\ StopHandle(channels[i].handle)

SpecPlace == Init /\ [][NextPlace]_vars

----------------------------------------------------------------------------
(* Elapsed time: one channel at a time, whose stream has data or has none  *)
(* for now, mixed, paused and queried while the clock advances.            *)

StarvedStream == [rate |-> 22050, rewindable |-> FALSE, eod |-> TRUE, eos |-> FALSE]

NextPlayElapsed ==
    /\ \A i \in Slots : ~Occupied(i)
    /\ \E stream \in {FreshStream, StarvedStream} :
          PlayStream("plain", TRUE, stream, -1, kMaxChannelVolume, 0, TRUE, FALSE)

NextMixElapsed ==
    \E out \in OutcomeFns(ToMix, {0, 1}, {Avail, Starved}) : MixCallback(out)

NextElapsed ==
    \/ NextPlayElapsed
    \/ NextMixElapsed
    \/ Tick
    \/ StopHandle(hvar)
    \/ \E paused \in BOOLEAN : (paused => PauseBounded) /\ PauseHandle(hvar, paused)
    \/ Query("getElapsedTime", hvar)

SpecElapsed == Init /\ [][NextElapsed]_vars

----------------------------------------------------------------------------
(* Looping: streams that can and cannot be rewound, owned by the mixer or  *)
(* by the caller, looped, mixed until they end, stopped and torn down.     *)

RewindableStream == [rate |-> 22050, rewindable |-> TRUE, eod |-> FALSE, eos |-> FALSE]

\* one channel at a time is followed through its life
NextPlayLoop ==
    /\ \A i \in Slots : ~Occupied(i)
    /\ \E stream \in {FreshStream, RewindableStream}, autofree \in BOOLEAN :
          PlayStream("plain", TRUE, stream, -1, kMaxChannelVolume, 0, autofree, FALSE)

NextLoop ==
    \/ NextPlayLoop
    \/ NextMix
    \/ LoopChannel(hvar)
    \/ StopHandle(hvar)
    \/ StopAll
    \/ Teardown

SpecLoop == Init /\ [][NextLoop]_vars

----------------------------------------------------------------------------
(* Getters: the lock-free getters of one thread, interleaved with the      *)
(* callback and with plays and stops of other threads.                     *)

NextPlayGetters ==
    \E volume \in {100, kMaxChannelVolume} :
        PlayStream("plain", TRUE, FreshStream, -1, volume, 0, TRUE, FALSE)

NextGetters ==
    \/ NextPlayGetters
    \/ NextMix
    \/ \E i \in Slots : Occupied(i) /\ StopHandle(channels[i].handle)
    \/ \E op \in GetterNames : GetterCheck(op, hvar)
    \/ GetterRead

SpecGetters == Init /\ [][NextGetters]_vars

----------------------------------------------------------------------------
(* Mixing: several channels, paused or not, whose streams produce frames   *)
(* and end.                                                                *)

\* two channels at a time
NextPlayFrames ==
    /\ \E i \in Slots : \A j \in Slots \ {i} : ~Occupied(j)
    /\ PlayStream("plain", TRUE, FreshStream, -1, kMaxChannelVolume, 0, TRUE, FALSE)

NextMixFrames ==
    \E out \in OutcomeFns(ToMix, {0, 1, 2}, {Avail, Ended}) : MixCallback(out)

NextFrames ==
    \/ NextPlayFrames
    \/ NextMixFrames
    \/ \E paused \in BOOLEAN : (paused => PauseBounded) /\ PauseHandle(hvar, paused)

SpecFrames == Init /\ [][NextFrames]_vars

----------------------------------------------------------------------------
(* Long play: one looped channel that the callback mixes for as long as    *)
(* the counter of decoded frames takes to wrap.                            *)

\* the frames one call of the converter produces
LongFrames == {0, 100}

NextPlayLong ==
    /\ \A i \in Slots : ~Occupied(i)
    /\ PlayStream("music", TRUE, RewindableStream, -1, kMaxChannelVolume, 0, TRUE, FALSE)

\* the callback with a converter that produces n frames and leaves the
\* stream with data
NextMixLong ==
    \E n \in LongFrames :
        MixCallback([i \in Slots |->
                        [frames |-> n, eod |-> FALSE, eos |-> FALSE, drain |-> FALSE]])

NextLong ==
    \/ NextPlayLong
    \/ NextMixLong
    \/ LoopChannel(hvar)
    \/ StopHandle(hvar)

SpecLong == Init /\ [][NextLong]_vars

----------------------------------------------------------------------------
(* The sweep under fairness: the audio backend keeps calling mixCallback.  *)
(* Streams end with or without output left in the converter, and a         *)
(* converter that is asked to drain does so in one call.                   *)

NextPlayFair ==
    /\ \A i \in Slots : ~Occupied(i)
    /\ PlayStream("plain", TRUE, FreshStream, -1, kMaxChannelVolume, 0, TRUE, FALSE)

NextMixDrain ==
    \E out \in OutcomeFns(ToMix, {0}, {Avail, Ended, EndedResidue}) :
        /\ \A i \in ToMix : channels[i].converter.drain => ~out[i].drain
        /\ MixCallback(out)

NextFair ==
    \/ NextPlayFair
    \/ NextMixDrain
    \/ \E paused \in BOOLEAN : (paused => PauseBounded) /\ PauseHandle(hvar, paused)

SpecFair == Init /\ [][NextFair]_vars /\ WF_vars(NextMixDrain)

----------------------------------------------------------------------------
(* Balance: one music channel whose balance takes every kind of int8       *)
(* value, the lowest included.                                             *)

Int8Balances == {-128, -127, -64, 0, 127}

NextPlayBalance ==
    /\ \A i \in Slots : ~Occupied(i)
    /\ \E balance \in {-128, 0} :
          PlayStream("music", TRUE, FreshStream, -1, kMaxChannelVolume, balance, TRUE, FALSE)

NextBalance ==
    \/ SetReady(TRUE)
    \/ NextPlayBalance
    \/ \E balance \in Int8Balances : SetChannelBalance(hvar, balance)
    \/ \E volume \in {0, 100, kMaxChannelVolume} : SetChannelVolume(hvar, volume)
    \/ \E faderR \in {0, 128, 255} : SetChannelFaderR(hvar, faderR)
    \/ \E volume \in {0, 100, kMaxMixerVolume} : SetVolumeForSoundType("music", volume)

SpecBalance == Init /\ [][NextBalance]_vars

----------------------------------------------------------------------------
(* Properties of slot and handle management, checked under Spec.           *)

\* the slots a step fills
Filled(i) == ~Occupied(i) /\ channels'[i] # NoChannel
PlayStep(res) == last'.op = "playStream" /\ last'.res = res

\* C1: isSoundHandleActive(h) is true exactly when slot h % NUM_CHANNELS is
\* occupied and the channel there stores h; and a handle whose generation
\* has been used (or the default handle) that is inactive is inactive after
\* every step, so the handle of a stopped or reaped channel is never active
\* again, also when its slot is filled by later playStream calls.
C1_StaleHandleStaysInactive ==
    [][\A h \in HandlesAndInvalid :
          /\ isSoundHandleActive(h)' <=>
                 /\ channels'[h % NUM_CHANNELS] # NoChannel
                 /\ channels'[h % NUM_CHANNELS].handle = h
          /\ ((h = InvalidHandle \/ h \div NUM_CHANNELS < handleSeed)
                 /\ ~isSoundHandleActive(h))
             => ~isSoundHandleActive(h)']_vars

\* the handle the caller kept is of a channel that is gone, and its slot
\* holds a newer channel
C1_Witness ==
    /\ hvar \in Handles
    /\ Occupied(Index(hvar))
    /\ ~isSoundHandleActive(hvar)
    /\ last.op = "playStream" /\ last.res = "ok"

\* C2: every occupied slot i stores a handle that is i modulo NUM_CHANNELS,
\* no two occupied slots store the same handle, and the handle a successful
\* playStream produces differs from the handles of all live channels and
\* from the handle the caller kept from any earlier playStream (a caller
\* keeps any one of the earlier handles, so this is pairwise distinctness).
SlotHandlesOk ==
    \A i \in Slots : Occupied(i) =>
        /\ channels[i].handle % NUM_CHANNELS = i
        /\ \A j \in Slots \ {i} : Occupied(j) => channels[j].handle # channels[i].handle
C2_HandlesDistinct ==
    [][/\ SlotHandlesOk'
       /\ PlayStep("ok") =>
            \A i \in Slots : Filled(i) =>
                /\ channels'[i].handle # hvar
                /\ \A j \in Slots : Occupied(j) => channels[j].handle # channels'[i].handle]_vars

\* a play has filled the table while the caller keeps the handle of a
\* channel that is gone
C2_Witness ==
    /\ last.op = "playStream" /\ last.res = "ok"
    /\ FreeSlots = {}
    /\ hvar \in Handles /\ ~HandleValid(hvar)
    /\ handleSeed > NUM_CHANNELS

\* C3: at most one occupied slot holds a channel with a given id other
\* than -1.
C3_OneChannelPerId ==
    \A i \in Slots : \A j \in Slots \ {i} :
        (Occupied(i) /\ Occupied(j) /\ channels[i].id = channels[j].id)
            => channels[i].id = -1

\* a play with the id of a live channel has been rejected
C3_Witness ==
    /\ last.op = "playStream" /\ last.res = "dup"
    /\ Cardinality(WithId(7)) = 1

\* C5: a playStream made while every slot is occupied leaves the slot table
\* and the handle seed as they were.
C5_FullTableUnchanged ==
    [][(FreeSlots = {} /\ last'.op = "playStream")
          => (channels' = channels /\ handleSeed' = handleSeed)]_vars

\* a play has failed for lack of a free slot
C5_Witness ==
    /\ last.op = "playStream" /\ last.res = "full"
    /\ \A i \in Slots : Occupied(i)

\* C6 as stated: after a playStream that found no free slot the caller's
\* handle variable is not an active handle.
C6_Original ==
    (last.op = "playStream" /\ last.res = "full") => ~isSoundHandleActive(hvar)

\* C6 amended: a playStream that finds no free slot does not write the
\* caller's handle variable, so the variable is an active handle after the
\* call exactly when it was one before.
C6_HandleVarUntouched ==
    [][PlayStep("full")
          => (hvar' = hvar /\ (isSoundHandleActive(hvar)' <=> isSoundHandleActive(hvar)))]_vars

\* a play has failed for lack of a free slot and the caller's variable holds
\* no active handle
C6_Witness ==
    /\ last.op = "playStream" /\ last.res = "full"
    /\ ~isSoundHandleActive(hvar)

----------------------------------------------------------------------------
(* Properties of stream ownership, checked under SpecOwn.                  *)

\* C4: a playStream rejected because its id is that of a live channel
\* leaves the slot table with every channel, the handle seed, the caller's
\* handle variable and every other stream as they were; the stream passed
\* is deleted if it was passed with DisposeAfterUse::YES and stays alive,
\* with the caller, if not.
C4_DuplicateRejected ==
    [][PlayStep("dup") =>
          LET sid == last'.ret[1]
              autofree == last'.ret[2]
          IN /\ channels' = channels
             /\ handleSeed' = handleSeed
             /\ hvar' = hvar
             /\ heap[sid] = "none"
             /\ heap'[sid] = IF autofree THEN "freed" ELSE "live"
             /\ \A s \in Sids \ {sid} : heap'[s] = heap[s]]_vars

\* a play with a caller-owned stream has been rejected for its id, after one
\* with an engine-owned stream was
C4_Witness ==
    /\ last.op = "playStream" /\ last.res = "dup"
    /\ last.ret[2] = FALSE
    /\ heap[last.ret[1]] = "live"
    /\ \E s \in Sids : heap[s] = "freed"
    /\ isSoundHandleActive(hvar) /\ getSoundID(hvar) = 7

----------------------------------------------------------------------------
(* Properties of readiness, checked under SpecReady.                       *)

\* C7: a playStream with a non-null stream made while the mixer is not
\* ready returns normally, without ending the program, and leaves the slot
\* table as it was.
C7_Original ==
    [][(~mixerReady /\ last'.op = "playStream" /\ last'.res # "null" /\ last' # last)
          => (~aborted' /\ channels' = channels)]_vars

\* the same statement in the builds that define NDEBUG, where no assert()
\* can end the program: the table is as it was
C7_NoAssertTableUnchanged ==
    [][(ndebug /\ ~mixerReady /\ last'.op = "playStream" /\ last'.res # "null"
          /\ last' # last) => channels' = channels]_vars

\* in a build with assert(), a play on a mixer that is not ready is the last
\* thing the program does
C7_AssertEndsProgram ==
    [][(~ndebug /\ ~mixerReady /\ last'.op = "playStream" /\ last'.res # "null"
          /\ last' # last) => (aborted' /\ last'.res = "assert")]_vars

----------------------------------------------------------------------------
(* Properties of calls with invalid handles, checked under SpecOps.        *)

\* what a handle-keyed query returns when it finds no channel
DefaultResult(op) ==
    CASE op = "getElapsedTime" -> ZeroTimestamp
      [] op = "isSoundHandleActive" -> <<FALSE>>
      [] OTHER -> <<0>>

\* C8: with a handle that no live channel carries (never issued, of a
\* channel that is gone, or of a slot since given to a newer channel),
\* stopHandle, pauseHandle, setChannelVolume, setChannelBalance,
\* setChannelFaderL, setChannelFaderR, setChannelRate, resetChannelRate and
\* loopChannel change nothing, and getChannelVolume, getChannelBalance,
\* getChannelFaderL, getChannelFaderR, getChannelRate and getSoundID return
\* 0, getElapsedTime the zero timestamp and isSoundHandleActive false.
C8_InvalidHandleNoOp ==
    [][StaleHandle(hvar) =>
          /\ last'.op \in MutatorNames =>
                UNCHANGED <<channels, handleSeed, mixerReady, soundTypeSettings,
                            heap, hvar, aborted>>
          /\ last'.op \in QueryNames => last'.ret = DefaultResult(last'.op)]_vars

\* a query with a handle that was issued has returned 0 while the slot of
\* the handle holds a newer channel, with a volume and a play time that are
\* not 0
C8_Witness ==
    /\ last.op = "getChannelVolume" /\ last.res = "stale" /\ last.ret = <<0>>
    /\ hvar \in Handles
    /\ Occupied(Index(hvar))
    /\ LET newer == channels[Index(hvar)].handle
       IN /\ newer # hvar
          /\ getChannelVolume(newer) = kMaxChannelVolume
          /\ getElapsedTime(newer) # ZeroTimestamp

----------------------------------------------------------------------------
(* Properties of permanent channels, checked under SpecPerm.               *)

\* slot i holds after the step the channel it held before it
SameChannel(i) ==
    IF channels'[i] = NoChannel THEN FALSE
    ELSE channels'[i].handle = channels[i].handle

\* C9: after stopAll the occupied slots are exactly those that held a
\* permanent channel before it, each with the channel it held, its pause
\* depth, volume and gains as they were and its stream alive; and a step
\* that frees the slot of a permanent channel is a stopHandle, a stopID or
\* the sweep of mixCallback.
C9_StopAllKeepsPermanent ==
    [][/\ last'.op = "stopAll" =>
             /\ channels' = [i \in Slots |->
                               IF Occupied(i) /\ channels[i].permanent
                               THEN channels[i] ELSE NoChannel]
             /\ \A i \in Slots :
                   (Occupied(i) /\ channels[i].permanent)
                       => heap'[channels[i].stream.sid] = "live"
       /\ \A i \in Slots :
             (Occupied(i) /\ channels[i].permanent /\ ~SameChannel(i))
                 => (/\ last'.op \in {"stopHandle", "stopID", "mixCallback"}
                     /\ channels'[i] = NoChannel)]_vars

\* stopAll has run on a table where it left a paused permanent channel in
\* its slot, above a slot that has been vacated
C9_Witness ==
    /\ last.op = "stopAll"
    /\ ~Occupied(0)
    /\ \E i \in Slots : /\ Occupied(i)
                        /\ channels[i].permanent
                        /\ channels[i].pauseLevel > 0
                        /\ heap[channels[i].stream.sid] = "live"
    /\ \E s \in Sids : heap[s] = "freed"

----------------------------------------------------------------------------
(* Properties of pausing, checked under SpecPause.                         *)

\* the depth of the channel in slot i after a request that reaches it
Nested(i, paused) ==
    channels'[i].pauseLevel =
        IF paused THEN channels[i].pauseLevel + 1
        ELSE Max(channels[i].pauseLevel - 1, 0)

\* slot i holds the same channel, at the same depth, after the step
SameDepth(i) ==
    Occupied(i) => /\ channels'[i] # NoChannel
                   /\ channels'[i].handle = channels[i].handle
                   /\ channels'[i].pauseLevel = channels[i].pauseLevel

\* C10: mixCallback mixes exactly the channels that are not finished and
\* whose pause depth is 0.  A pause request adds one to the depth of each
\* channel it reaches and an unpause request takes one from it, down to 0
\* (pauseAll reaches every channel, pauseHandle the channel of a valid
\* handle, pauseID the first channel with the id); no request changes the
\* depth of another channel and no other call changes a depth.  So a
\* channel paused N times is mixed again after N unpauses and not before.
C10_NestedPause ==
    [][/\ last'.op = "mixCallback" =>
             last'.mixed = {i \in Slots : /\ Occupied(i)
                                          /\ ~isFinished(channels[i])
                                          /\ channels[i].pauseLevel = 0}
       /\ \A paused \in BOOLEAN :
             /\ PauseAll(paused) => \A i \in Slots : Occupied(i) => Nested(i, paused)
             /\ PauseHandle(hvar, paused) =>
                   \A i \in Slots :
                       IF Occupied(i) /\ channels[i].handle = hvar
                       THEN Nested(i, paused) ELSE SameDepth(i)
             /\ \A id \in Ids :
                   PauseID(id, paused) =>
                       \A i \in Slots :
                           IF /\ Occupied(i) /\ channels[i].id = id
                              /\ \A j \in Slots : (Occupied(j) /\ channels[j].id = id) => i <= j
                           THEN Nested(i, paused) ELSE SameDepth(i)
       /\ last'.op \in {"playStream", "new", "setReady"} =>
             \A i \in Slots : SameDepth(i)
       /\ last'.op = "mixCallback" =>
             \A i \in Slots : channels'[i] = NoChannel \/ SameDepth(i)]_vars

\* an unpause has reached a channel and left it paused, so that the next
\* callback will not mix it, beside a channel that is not paused
C10_Witness ==
    /\ last.op = "pauseHandle" /\ last.res = "unpaused" /\ last.ret = <<FALSE>>
    /\ channels[Index(hvar)].pauseLevel = 1
    /\ Index(hvar) \notin ToMix
    /\ ToMix # {}

----------------------------------------------------------------------------
(* Properties of pauses and time, checked under SpecTime.                  *)

\* C11: for a channel that has been mixed, over every step before or after
\* which it is paused (the pause that begins a pause, the passing of time
\* while it is paused, the unpause that ends it) getElapsedTime keeps its
\* value, in the first pause after a mix and in every later one.
C11_Original ==
    [][\A i \in Slots :
          (/\ Occupied(i) /\ SameChannel(i)
           /\ channels[i].mixerTimeStamp # 0
           /\ (isPaused(channels[i]) \/ isPaused(channels'[i])))
          => ChannelGetElapsedTime(channels'[i], now')
                 = ChannelGetElapsedTime(channels[i], now)]_vars

\* what does hold: the value is kept while the channel stays paused and over
\* the unpause, and over the pause that begins a pause if no pause time is
\* stored from an earlier pause since the last mix
C11_FirstPauseOnly ==
    [][\A i \in Slots :
          (/\ Occupied(i) /\ SameChannel(i)
           /\ channels[i].mixerTimeStamp # 0
           /\ (isPaused(channels[i]) \/ isPaused(channels'[i]))
           /\ (isPaused(channels[i]) \/ channels[i].pauseTime = 0))
          => ChannelGetElapsedTime(channels'[i], now')
                 = ChannelGetElapsedTime(channels[i], now)]_vars

\* C12: the pause depth of every live channel is at least 0, and an unpause
\* that reaches a channel whose depth is 0 (by its handle, or with every
\* channel) leaves the channel, its depth, pause start and pause time
\* included, as it was.
C12_UnpauseAtZeroIgnored ==
    [][/\ \A i \in Slots :
             IF channels'[i] = NoChannel THEN TRUE ELSE channels'[i].pauseLevel >= 0
       /\ (/\ last'.op = "pauseHandle" /\ last'.ret = <<FALSE>>
           /\ HandleValid(hvar) /\ channels[Index(hvar)].pauseLevel = 0)
          => channels' = channels
       /\ (last'.op = "pauseAll" /\ last'.ret = <<FALSE>>)
          => \A i \in Slots :
                IF Occupied(i) THEN channels[i].pauseLevel = 0 => channels'[i] = channels[i]
                ELSE TRUE]_vars

\* an unpause has found the channel of the handle at depth 0 and ignored
\* it; the channel holds the pause time of an earlier pause
C12_Witness ==
    /\ last.op = "pauseHandle" /\ last.res = "ignored" /\ last.ret = <<FALSE>>
    /\ HandleValid(hvar)
    /\ channels[Index(hvar)].pauseLevel = 0
    /\ channels[Index(hvar)].pauseStartTime = 0
    /\ channels[Index(hvar)].pauseTime > 0

----------------------------------------------------------------------------
(* Properties of the sweep, checked under SpecSweep.                       *)

\* C13: a channel that is finished (its stream at its end and nothing left
\* in the converter) when a mixCallback starts is not in the table when the
\* callback returns, paused or not: its slot is empty, isSoundHandleActive
\* is false for its handle and isSoundIDActive is false for its id.
C13_FinishedSwept ==
    [][last'.op = "mixCallback" =>
          \A i \in Slots :
              (/\ Occupied(i)
               /\ channels[i].stream.eos /\ ~channels[i].converter.drain)
              => /\ channels'[i] = NoChannel
                 /\ \A h \in Handles :
                       h = channels[i].handle => ~isSoundHandleActive(h)'
                 /\ \A id \in Ids \ {-1} :
                       id = channels[i].id => ~isSoundIDActive(id)']_vars

\* the sweep has freed a paused channel.  The channel of slot 1 was played
\* with a stream that had data and has never been mixed, so every callback
\* since it was played found it paused; slot 0 held a channel when it was
\* played, paused with it by pauseAll, and only the sweep frees a slot here.
C13_Witness ==
    /\ last.op = "mixCallback"
    /\ ~Occupied(0)
    /\ Occupied(1)
    /\ isPaused(channels[1])
    /\ channels[1].mixerTimeStamp = 0
    /\ ~channels[1].stream.eod

----------------------------------------------------------------------------
(* Properties of the life of streams, checked under SpecOwn.               *)

\* the stream of slot i, and whether deleting the channel deletes it
StreamOf(i) == channels[i].stream.sid
Disposes(i) ==
    IF channels[i].stream.looping THEN channels[i].stream.innerDispose
    ELSE channels[i].stream.dispose

\* C14: a stream passed with DisposeAfterUse::YES is deleted once, in the
\* step that ends it (a rejected playStream, stopHandle, stopID, stopAll,
\* the sweep of mixCallback or ~MixerImpl), and is in no channel after
\* that; a stream passed with DisposeAfterUse::NO is not deleted by any
\* step; no stream is deleted twice and the mixer deletes no other stream.
C14_StreamDeletedOnce ==
    [][/\ \A s \in Sids :
             /\ heap'[s] # "doublefree"
             /\ heap[s] = "freed" => heap'[s] = "freed"
             /\ heap'[s] # heap[s] =>
                   \/ /\ heap[s] = "none"
                      /\ last'.op = "playStream" /\ last'.ret[1] = s
                   \/ /\ heap[s] = "live" /\ heap'[s] = "freed"
                      /\ \E i \in Slots :
                            Occupied(i) /\ StreamOf(i) = s /\ Disposes(i) /\ ~SameChannel(i)
       /\ \A i \in Slots :
             Occupied(i) =>
                 heap'[StreamOf(i)] =
                     IF ~SameChannel(i) /\ Disposes(i) THEN "freed" ELSE "live"
       /\ (last'.op = "playStream" /\ last'.res \in {"dup", "full"} /\ last' # last)
          => heap'[last'.ret[1]] = IF last'.ret[2] THEN "freed" ELSE "live"
       /\ (last'.op = "playStream" /\ last'.res = "ok" /\ last' # last)
          => heap'[last'.ret[1]] = "live"]_vars

\* the mixer has been destroyed after every stream of the run was passed to
\* it: some streams are deleted, the others are alive with their callers,
\* and ~MixerImpl deleted at least one channel
C14_Witness ==
    /\ last.op = "~MixerImpl"
    /\ \A i \in Slots : ~Occupied(i)
    /\ \A s \in Sids : heap[s] \in {"freed", "live"}
    /\ \E s \in Sids : heap[s] = "freed"
    /\ \E s \in Sids : heap[s] = "live"
    /\ isSoundHandleActive(hvar) = FALSE /\ hvar \in Handles

----------------------------------------------------------------------------
(* Properties of locking, checked under SpecThreads.                       *)

\* C15: while a call that changes the table, the settings or a channel is
\* in progress, no step is taken by the callback or by another call.
C15_Original ==
    [][pending # NoCall => last' = last]_vars

----------------------------------------------------------------------------
(* Properties of the gains, checked under SpecGain.                        *)

Muted(c) == soundTypeSettings[c.type].mute
TypeVolume(c) == soundTypeSettings[c.type].volume
LiveChannels == {channels[i] : i \in {j \in Slots : Occupied(j)}}

GainsFresh ==
    \A c \in LiveChannels : updateChannelVolumes(c, soundTypeSettings) = c

\* C16: in every state the gains of every live channel are those computed
\* from the volume and mute flag its sound type has now and from the
\* volume, balance and faders the channel has now.  Violated under
\* SpecThreads: muteSoundType writes the flag and updates the channels
\* outside the mutex, and the callback runs in between.
C16_Original == GainsFresh

\* the same holds whenever no call is in progress, and in every state of
\* SpecGain, whose calls are not interleaved with the callback
C16_GainsFreshBetweenCalls == pending = NoCall => GainsFresh

\* the gains as a function of the six values and of nothing else
GainsOf(typeVolume, muted, volume, balance, faderL, faderR) ==
    LET c == updateChannelVolumes(
                 [type |-> "plain", volume |-> volume, balance |-> balance,
                  faderL |-> faderL, faderR |-> faderR, volL |-> 0, volR |-> 0],
                 [t \in {"plain"} |-> [mute |-> muted, volume |-> typeVolume]])
    IN <<c.volL, c.volR>>

\* C17: the gains of a channel are a function of the volume and mute flag
\* of its type and of its volume, balance and faders, whatever calls led
\* to them, and both are 0 when the type is muted.
C17_MutedIsSilent ==
    \A c \in LiveChannels :
        /\ <<c.volL, c.volR>> =
               GainsOf(TypeVolume(c), Muted(c), c.volume, c.balance, c.faderL, c.faderR)
        /\ Muted(c) => (c.volL = 0 /\ c.volR = 0)

\* a muted channel whose volume, faders and type volume are at their maxima
C17_Witness ==
    \E c \in LiveChannels :
        /\ Muted(c) /\ TypeVolume(c) = kMaxMixerVolume
        /\ c.volume = kMaxChannelVolume /\ c.faderL = 255 /\ c.faderR = 255
        /\ c.volL = 0 /\ c.volR = 0

\* the gains the channel would have with balance 0
Centered(c) ==
    GainsOf(TypeVolume(c), Muted(c), c.volume, 0, c.faderL, c.faderR)

\* C18: for a channel that is not muted and has both faders at 255:
\* balance 0 gives equal gains, balance 127 a left gain of 0, balance -127
\* a right gain of 0; a negative balance leaves the left gain and a
\* positive balance the right gain at the value balance 0 gives.
C18_Balance ==
    \A c \in LiveChannels :
        (~Muted(c) /\ c.faderL = 255 /\ c.faderR = 255) =>
            /\ c.balance = 0 => c.volL = c.volR
            /\ c.balance = 127 => c.volL = 0
            /\ c.balance = -127 => c.volR = 0
            /\ c.balance < 0 => c.volL = Centered(c)[1]
            /\ c.balance > 0 => c.volR = Centered(c)[2]

\* a channel panned to the right: the left gain is lower than the right
\* gain, which is what balance 0 would give
C18_Witness ==
    \E c \in LiveChannels :
        /\ ~Muted(c) /\ c.faderL = 255 /\ c.faderR = 255
        /\ c.balance = 64 /\ c.volume = 254 /\ TypeVolume(c) = 255
        /\ c.volL < c.volR
        /\ c.volR = Centered(c)[2]

Abs(x) == IF x < 0 THEN -x ELSE x

\* the two-stage computation: the balance, truncated, then the fader,
\* truncated
ReferenceGains(typeVolume, volume, balance, faderL, faderR) ==
    LET vol == typeVolume * volume
        attenuated == ((127 - Abs(balance)) * vol) \div (255 * 127)
        other == vol \div 255
        left == IF balance > 0 THEN attenuated ELSE other
        right == IF balance < 0 THEN attenuated ELSE other
    IN <<(left * faderL) \div 255, (right * faderR) \div 255>>

\* C19: for a channel that is not muted the gains are those of the
\* two-stage integer computation: vol = type volume * volume; the side the
\* balance attenuates is floor((127 - |balance|) * vol / (255 * 127)), the
\* other floor(vol / 255); each side s is then floor(s * fader / 255).
C19_TwoStage ==
    \A c \in LiveChannels :
        ~Muted(c) =>
            <<c.volL, c.volR>> =
                ReferenceGains(TypeVolume(c), c.volume, c.balance, c.faderL, c.faderR)

\* a channel for which the truncation after the balance stage shows: one
\* division of (127 - |balance|) * vol * fader by 255 * 127 * 255 would give
\* another left gain
C19_Witness ==
    \E c \in LiveChannels :
        /\ ~Muted(c) /\ c.balance > 0 /\ c.faderL \in 1 .. 254
        /\ c.volL # ((127 - c.balance) * TypeVolume(c) * c.volume * c.faderL)
                        \div (255 * 127 * 255)

\* C20: both gains of every channel are in 0 .. kMaxMixerVolume, and with
\* type volume 256, volume 255, balance 0 and both faders 255 both are 256.
C20_GainRange ==
    \A c \in LiveChannels :
        /\ c.volL \in 0 .. kMaxMixerVolume
        /\ c.volR \in 0 .. kMaxMixerVolume
        /\ (/\ ~Muted(c) /\ TypeVolume(c) = kMaxMixerVolume
            /\ c.volume = kMaxChannelVolume /\ c.balance = 0
            /\ c.faderL = 255 /\ c.faderR = 255)
           => (c.volL = kMaxMixerVolume /\ c.volR = kMaxMixerVolume)

\* a channel at full volume whose right fader was just set to 255
C20_Witness ==
    \E c \in LiveChannels :
        /\ last.op = "setChannelFaderR"
        /\ ~Muted(c) /\ TypeVolume(c) = kMaxMixerVolume
        /\ c.volume = kMaxChannelVolume /\ c.balance = 0
        /\ c.faderL = 255 /\ c.faderR = 255
        /\ c.volL = kMaxMixerVolume /\ c.volR = kMaxMixerVolume

----------------------------------------------------------------------------
(* Properties of the sound type settings, checked under SpecTypes.         *)

\* the settings of the types other than type, and the channels of the
\* types other than type, are the same after the step
OtherTypesSame(type) ==
    /\ \A t \in SoundTypes \ {type} : soundTypeSettings'[t] = soundTypeSettings[t]
    /\ \A i \in Slots :
          (Occupied(i) /\ channels[i].type # type) => channels'[i] = channels[i]

\* C21: the volume stored for every sound type is in 0 .. 256 in every
\* state; setVolumeForSoundType(type, volume) stores volume clipped to
\* 0 .. 256; and setVolumeForSoundType and muteSoundType for a type leave
\* the settings of the other types and the channels of the other types as
\* they were.
C21_TypeSettings ==
    /\ [](\A t \in SoundTypes : soundTypeSettings[t].volume \in 0 .. kMaxMixerVolume)
    /\ [][\A type \in SetTypes :
            /\ \A volume \in SetTypeVolumes :
                  SetVolumeForSoundType(type, volume) =>
                      /\ soundTypeSettings'[type].volume =
                             IF volume < 0 THEN 0
                             ELSE IF volume > 256 THEN 256 ELSE volume
                      /\ soundTypeSettings'[type].mute = soundTypeSettings[type].mute
                      /\ OtherTypesSame(type)
            /\ \A mute \in BOOLEAN :
                  MuteSoundType(type, mute) =>
                      /\ soundTypeSettings'[type].mute = mute
                      /\ soundTypeSettings'[type].volume = soundTypeSettings[type].volume
                      /\ OtherTypesSame(type)]_vars

\* the music volume was just set to 0 while a music channel and an sfx
\* channel play: the music channel is silent and the sfx channel is not
C21_Witness ==
    /\ last.op = "setVolumeForSoundType"
    /\ soundTypeSettings["music"].volume = 0
    /\ soundTypeSettings["sfx"].volume = 100
    /\ \E i, j \in Slots :
          /\ Occupied(i) /\ channels[i].type = "music" /\ channels[i].volL = 0
          /\ Occupied(j) /\ channels[j].type = "sfx" /\ channels[j].volL > 0

----------------------------------------------------------------------------
(* Properties of the placement of a new channel, checked under SpecPlace.  *)

\* the lowest-indexed empty slot
LowestEmpty == CHOOSE i \in Slots : ~Occupied(i) /\ \A j \in 0 .. (i - 1) : Occupied(j)

\* C22: a playStream that succeeds puts the new channel in the
\* lowest-indexed empty slot and changes no other slot; the channel's
\* handle (written to the caller's variable if one is passed) is index +
\* generation * NUM_CHANNELS for the generation before the call, the
\* generation is one more after it, isSoundHandleActive(handle) is true,
\* the pause depth is 0, the faders are 255 and the volume and balance are
\* those passed.
C22_PlayPlaces ==
    [][\A useHandle \in BOOLEAN, volume \in PlaceVolumes, balance \in PlaceBalances :
         (/\ PlayStream("sfx", useHandle, FreshStream, -1, volume, balance, TRUE, FALSE)
          /\ last'.res = "ok") =>
            LET index == LowestEmpty
                handle == index + handleSeed * NUM_CHANNELS
            IN /\ \A j \in Slots \ {index} : channels'[j] = channels[j]
               /\ channels'[index] # NoChannel
               /\ channels'[index].handle = handle
               /\ useHandle => hvar' = handle
               /\ handleSeed' = handleSeed + 1
               /\ \A h \in Handles : h = handle => isSoundHandleActive(h)'
               /\ channels'[index].pauseLevel = 0
               /\ channels'[index].faderL = 255
               /\ channels'[index].faderR = 255
               /\ channels'[index].volume = volume
               /\ channels'[index].balance = balance]_vars

\* a play has just put a channel of a later generation in slot 0, below an
\* older channel that still plays in slot 1
C22_Witness ==
    /\ last.op = "playStream" /\ last.res = "ok"
    /\ Occupied(0) /\ Occupied(1)
    /\ channels[0].handle > channels[1].handle
    /\ hvar = channels[0].handle
    /\ channels[0].volume = 200 /\ channels[0].balance = -127

----------------------------------------------------------------------------
(* Properties of a play without a stream, checked under SpecReady.         *)

\* C25: playStream with a null stream returns and leaves the slot table,
\* the generation counter and the caller's handle variable as they were,
\* whether the mixer is ready or not: no assertion fails, the null test
\* comes before the readiness test.
C25_NullStreamIgnored ==
    [][PlayStep("null") =>
          UNCHANGED <<channels, handleSeed, hvar, heap, mixerReady, aborted>>]_vars

\* a play without a stream has returned in a build with assert(), with the
\* mixer not ready and a channel playing
C25_Witness ==
    /\ last.op = "playStream" /\ last.res = "null"
    /\ ~mixerReady /\ ~ndebug /\ ~aborted
    /\ HandleValid(hvar)

----------------------------------------------------------------------------
(* Properties of the elapsed time, checked under SpecElapsed.              *)

\* the channel has a time stamp of a mix
Stamped(c) == c.mixerTimeStamp # 0

\* slot i came to hold a stamped channel in this step: by a mix of the
\* callback in which its stream had data or its converter residue
NonIdleMix(i) ==
    /\ last'.op = "mixCallback"
    /\ i \in last'.mixed
    /\ ChannelMixes(channels[i])

C23_WitnessZero ==
    /\ last.op = "getElapsedTime" /\ last.res = "valid"
    /\ HandleValid(hvar)
    /\ channels[Index(hvar)].stream.eod
    /\ channels[Index(hvar)].pauseTime > 0
    /\ now = MaxTime
    /\ last.ret = ZeroTimestamp

----------------------------------------------------------------------------
(* Properties of looping, checked under SpecLoop.                          *)

Looped(i) == Occupied(i) /\ channels[i].stream.looping

\* the channel of slot i after the step is the one before it with its
\* stream in a looping wrapper that disposes of it as the channel did
Wrapped(i) ==
    /\ channels'[i] # NoChannel
    /\ channels'[i].stream.looping
    /\ channels'[i].stream.sid = channels[i].stream.sid
    /\ channels'[i].stream.innerDispose = channels[i].stream.dispose
    /\ ~channels'[i].stream.eos
    /\ [channels'[i] EXCEPT !.stream = channels[i].stream] = channels[i]

\* C24: loopChannel on a valid handle whose stream can be rewound puts the
\* stream in a wrapper that loops for ever and owns it as the channel did,
\* and on a stream that cannot be rewound changes nothing; a looped channel
\* leaves its slot only by a stop or the destructor, never by the sweep of
\* the callback; when it is destroyed, the original stream is deleted
\* exactly once if the mixer owned it and not at all if the caller did.
C24_LoopChannel ==
    /\ [](\A s \in Sids : heap[s] # "doublefree")
    /\ [][/\ (last'.op = "loopChannel" /\ last'.res = "valid") =>
                LET i == Index(hvar)
                IN /\ heap' = heap
                   /\ \A j \in Slots \ {i} : channels'[j] = channels[j]
                   /\ IF channels[i].stream.rewindable /\ ~channels[i].stream.looping
                      THEN Wrapped(i)
                      ELSE channels'[i] = channels[i]
          /\ \A i \in Slots :
                (Looped(i) /\ channels'[i] = NoChannel) =>
                    /\ last'.op \in {"stopHandle", "stopAll", "~MixerImpl"}
                    /\ heap'[StreamOf(i)] =
                           IF channels[i].stream.innerDispose THEN "freed" ELSE "live"
          /\ \A i \in Slots :
                (Looped(i) /\ channels'[i] # NoChannel) =>
                    /\ channels'[i].stream.looping
                    /\ channels'[i].stream.innerDispose = channels[i].stream.innerDispose
                    /\ heap'[StreamOf(i)] = "live"]_vars

\* the callback has just mixed a looped channel whose original the caller
\* owns, after channels before it were swept
C24_Witness ==
    /\ last.op = "mixCallback"
    /\ \E i \in Slots :
          /\ Looped(i) /\ i \in last.mixed
          /\ ~channels[i].stream.innerDispose
          /\ heap[StreamOf(i)] = "live"
          /\ ~channels[i].stream.eod
    /\ \E s \in Sids : heap[s] = "freed"

----------------------------------------------------------------------------
(* Properties of the pause time, checked under SpecTime.                   *)

\* C26: the pause time of a channel is the sum of the pause intervals
\* completed since its last mix: an unpause that brings the depth to 0 adds
\* now - pause start to the pause time kept so far.  Violated: Channel::pause
\* stores now - pause start and drops what was kept.
C26_Original ==
    [][\A i \in Slots :
          (/\ last'.op \in {"pauseHandle", "pauseAll"}
           /\ Occupied(i)
           /\ channels[i].pauseLevel = 1
           /\ channels'[i] # NoChannel
           /\ channels'[i].pauseLevel = 0) =>
              channels'[i].pauseTime =
                  channels[i].pauseTime + (now - channels[i].pauseStartTime)]_vars

\* what the code does: the pause time is the length of the last completed
\* pause interval
C26_LastIntervalOnly ==
    [][\A i \in Slots :
          (/\ last'.op \in {"pauseHandle", "pauseAll"}
           /\ Occupied(i)
           /\ channels[i].pauseLevel = 1
           /\ channels'[i] # NoChannel
           /\ channels'[i].pauseLevel = 0) =>
              channels'[i].pauseTime = now - channels[i].pauseStartTime]_vars

----------------------------------------------------------------------------
(* Properties of the getters, checked under SpecGetters.                   *)

\* C27: getChannelVolume, getChannelBalance, getChannelFaderL,
\* getChannelFaderR and getChannelRate test the handle and read the channel
\* in one step with respect to the callback and to the stops of other
\* threads: no getter reads a channel that was destroyed, or returns the
\* value of another channel than the one it tested.  Violated: the five
\* getters take no lock.
C27_Original ==
    last.op \in GetterNames => last.res \in {"valid", "stale"}

\* what does hold: a getter that returns without another call in between
\* returns the value of the channel of its handle
C27_UninterruptedGetter ==
    [][(pending # NoCall /\ pending.op \in GetterNames /\ HandleValid(pending.h)
        /\ pending' = NoCall)
       => last'.ret = QueryResult(pending.op, pending.h)]_vars

----------------------------------------------------------------------------
(* Properties of pauseID, checked under SpecPause.                         *)

\* slot i is left by the step as a pause call of Channel leaves it
PausedBy(i, paused) == channels'[i] = ChannelPause(channels[i], paused, now)

\* C28: pauseID(id, paused) pauses or unpauses the channel of every
\* occupied slot whose id is id, the slots stopID(id) frees and
\* isSoundIDActive(id) looks at, and no other; so for id = -1, which several
\* channels can have.  Violated: pauseID returns after the first slot.
C28_Original ==
    [][\A paused \in BOOLEAN :
          (last'.op = "pauseID" /\ last'.ret = <<paused>>) =>
              \E id \in Ids :
                  \A i \in Slots :
                      IF i \in WithId(id) THEN PausedBy(i, paused)
                      ELSE channels'[i] = channels[i]]_vars

\* what the code does: the lowest slot with the id, and no other
C28_FirstSlotOnly ==
    [][\A paused \in BOOLEAN :
          (last'.op = "pauseID" /\ last'.ret = <<paused>>) =>
              \E id \in Ids :
                  \A i \in Slots :
                      IF i \in WithId(id) /\ \A j \in WithId(id) : i <= j
                      THEN PausedBy(i, paused)
                      ELSE channels'[i] = channels[i]]_vars

----------------------------------------------------------------------------
(* Properties of an idle channel, checked under SpecElapsed.               *)

\* the stream has no data now but has not ended, and the converter holds
\* nothing to drain
Idle(c) == c.stream.eod /\ ~c.stream.eos /\ ~c.converter.drain

\* the step is a call of mixCallback
MixStep == last'.op = "mixCallback" /\ now' = now

\* C29: a channel whose stream has no data now but has not ended, and whose
\* converter needs no draining, is idle and not finished: the callback does
\* not free its slot, Channel::mix returns 0 for it (whatever the converter
\* could do), and the callback leaves its frames consumed, frames decoded,
\* time stamp and pause time, and the rest of the channel, as they were.
C29_IdleChannel ==
    [][\A i \in Slots :
          (MixStep /\ Occupied(i) /\ Idle(channels[i])) =>
              /\ ~isFinished(channels[i])
              /\ channels'[i] = channels[i]
              /\ ~isPaused(channels[i]) => i \in last'.mixed
              /\ \A n \in 0 .. MaxDecoded, ph \in AllPhases :
                    ChannelMixResult(channels[i],
                                     [frames |-> n, eod |-> ph.eod, eos |-> ph.eos,
                                      drain |-> ph.drain]) = 0
              /\ last'.ret = <<0>>]_vars

\* the callback has just asked a channel to mix whose stream ran out of data
\* at an earlier mix, and the channel keeps the time stamp of that mix
C29_Witness ==
    /\ last.op = "mixCallback" /\ last.ret = <<0>>
    /\ \E i \in Slots :
          /\ Occupied(i) /\ Idle(channels[i])
          /\ i \in last.mixed
          /\ channels[i].mixerTimeStamp # 0
          /\ channels[i].mixerTimeStamp < now
          /\ channels[i].samplesDecoded = 1

----------------------------------------------------------------------------
(* Properties of the callback, checked under SpecFrames.                   *)

\* the frames the step added to the frames decoded of slot i
Produced(i) == channels'[i].samplesDecoded - channels[i].samplesDecoded

\* C30: mixCallback returns the largest number of frames produced by a
\* channel it mixed, and 0 if it mixed none; it mixes the channels that are
\* not finished and not paused; a channel the sweep frees is not mixed in
\* that call; a paused channel is left as it was.
C30_CallbackResult ==
    [][last'.op = "mixCallback" =>
          LET swept == {i \in Slots : Occupied(i) /\ isFinished(channels[i])}
              mixed == {i \in Slots : Occupied(i) /\ ~isFinished(channels[i])
                                         /\ channels[i].pauseLevel = 0}
              res == last'.ret[1]
          IN /\ last'.mixed = mixed
             /\ \A i \in swept : channels'[i] = NoChannel
             /\ \A i \in mixed : channels'[i] # NoChannel /\ res >= Produced(i)
             /\ IF mixed = {} THEN res = 0 ELSE \E i \in mixed : res = Produced(i)
             /\ \A i \in Slots \ (swept \cup mixed) : channels'[i] = channels[i]]_vars

\* the callback has returned 2, the frames of the channel of slot 1, after
\* mixing that channel and one that produced fewer, both now ended
C30_Witness ==
    /\ last.op = "mixCallback" /\ last.ret = <<2>>
    /\ last.mixed = {0, 1}
    /\ Occupied(0) /\ Occupied(1)
    /\ channels[0].samplesDecoded = 1 /\ channels[0].samplesConsumed = 0
    /\ channels[1].samplesDecoded = 2 /\ channels[1].samplesConsumed = 0

\* the callback has returned 0 with a paused channel in the table, which it
\* did not mix
C30_WitnessPaused ==
    /\ last.op = "mixCallback" /\ last.ret = <<0>>
    /\ last.mixed = {}
    /\ \E i \in Slots : Occupied(i) /\ isPaused(channels[i])

----------------------------------------------------------------------------
(* Properties of the frame counters, checked under SpecLong.               *)

\* slot i holds the same channel before and after the step
Continues(i) ==
    /\ Occupied(i)
    /\ channels'[i] # NoChannel
    /\ channels'[i].handle = channels[i].handle

\* C31: in every state the frames consumed of a channel are at most its
\* frames decoded, and the frames decoded of a channel never decrease, also
\* for a looped channel that is mixed for any length of time.  Violated:
\* _samplesDecoded is a 32-bit counter that wraps.
C31_Original ==
    /\ [](\A i \in Slots :
             Occupied(i) => channels[i].samplesConsumed <= channels[i].samplesDecoded)
    /\ [][\A i \in Slots :
             Continues(i) => channels'[i].samplesDecoded >= channels[i].samplesDecoded]_vars

\* what does hold: a mix that converts sets the frames consumed to the
\* frames decoded before it and the pause time to 0, and adds the frames
\* produced to the frames decoded, modulo the width of the counter
C31_CountersModulo ==
    [][\A i \in Slots :
          (last'.op = "mixCallback" /\ i \in last'.mixed /\ ChannelMixes(channels[i])) =>
              /\ channels'[i].samplesConsumed = channels[i].samplesDecoded
              /\ channels'[i].pauseTime = 0
              /\ channels'[i].samplesDecoded =
                     (channels[i].samplesDecoded + last'.ret[1]) % UIntMod]_vars

----------------------------------------------------------------------------
(* Properties of the ready flag, checked under SpecReady.                  *)

\* C32: the ready flag is false when the mixer is constructed and becomes
\* true only by mixCallback or setReady; it is true after every
\* mixCallback, whatever it was before; and once true it becomes false only
\* by setReady.
C32_ReadyFlag ==
    /\ [](last.op = "new" => ~mixerReady)
    /\ [][/\ last'.op = "mixCallback" => mixerReady'
          /\ (~mixerReady /\ mixerReady') => last'.op \in {"mixCallback", "setReady"}
          /\ (mixerReady /\ ~mixerReady') => last'.op = "setReady"]_vars

\* the callback has mixed a channel and the flag is true, in a build
\* without assert() where the channel could be played with the flag false
C32_Witness ==
    /\ last.op = "mixCallback"
    /\ last.mixed # {}
    /\ mixerReady
    /\ ndebug

----------------------------------------------------------------------------
(* Properties of the sweep under fairness, checked under SpecFair.         *)

\* the channel of handle h is live and its stream has ended for good
EndedChannel(h) == HandleValid(h) /\ channels[Index(h)].stream.eos

\* the channel of handle h is paused with output left in its converter
PausedWithResidue(h) ==
    /\ HandleValid(h)
    /\ isPaused(channels[Index(h)])
    /\ channels[Index(h)].converter.drain

\* C33: if the callback keeps being called, every channel whose stream has
\* ended for good is eventually removed and its handle becomes inactive,
\* paused or not, output left in its converter or not.  Violated: a paused
\* channel is not mixed, so its converter is never drained, and the sweep
\* leaves a channel that needs draining.
C33_Original ==
    \A h \in Handles : EndedChannel(h) ~> ~HandleValid(h)

\* C33 as amended: if the callback keeps being called, every channel whose
\* stream has ended for good is eventually removed and its handle becomes
\* inactive, unless it is paused while its converter holds output: it is
\* swept when paused with an empty converter, and drained and then swept
\* when not paused.
C33_SweptUnlessPausedWithResidue ==
    \A h \in Handles : EndedChannel(h) ~> (~HandleValid(h) \/ PausedWithResidue(h))

\* the callback has swept the channel of the caller's handle after its
\* stream ended: the table is empty and the stream deleted
C33_Witness ==
    /\ last.op = "mixCallback"
    /\ hvar # InvalidHandle
    /\ ~HandleValid(hvar)
    /\ \A i \in Slots : ~Occupied(i)
    /\ \E s \in Sids : heap[s] = "freed"

----------------------------------------------------------------------------
(* Properties of the balance, checked under SpecBalance.                   *)

\* C34: for every int8 balance, -128 included, the gains of a channel are
\* in 0 .. kMaxMixerVolume and neither is above the gain balance 0 gives.
\* Violated: with balance -128 the factor 127 + balance is -1, the right
\* gain is negative before it is stored in 16 unsigned bits.
C34_Original ==
    \A c \in LiveChannels :
        /\ c.volL \in 0 .. kMaxMixerVolume
        /\ c.volR \in 0 .. kMaxMixerVolume
        /\ c.volL <= Centered(c)[1]
        /\ c.volR <= Centered(c)[2]

\* what does hold: the same for the balances -127 .. 127
C34_DocumentedBalances ==
    \A c \in LiveChannels :
        c.balance \in -127 .. 127 =>
            /\ c.volL \in 0 .. kMaxMixerVolume
            /\ c.volR \in 0 .. kMaxMixerVolume
            /\ c.volL <= Centered(c)[1]
            /\ c.volR <= Centered(c)[2]

----------------------------------------------------------------------------
(* Properties of the elapsed-time delta, checked under SpecElapsed.        *)

\* C35: in every reachable state, a channel that has been mixed has a delta
\* in getElapsedTime that does not go below zero: if it is paused, the start
\* of the pause is not before the time of its last mix, and if it is not,
\* the time since its last mix is at least its pause time.
C35_NoUnderflow ==
    \A i \in Slots :
        (Occupied(i) /\ Stamped(channels[i])) =>
            LET c == channels[i]
            IN IF isPaused(c)
               THEN c.pauseStartTime >= c.mixerTimeStamp
               ELSE now - c.mixerTimeStamp >= c.pauseTime

\* getElapsedTime has been called on a mixed channel that was paused and
\* resumed after its last mix and is paused again, later than that mix
C35_Witness ==
    /\ last.op = "getElapsedTime" /\ last.res = "valid"
    /\ HandleValid(hvar)
    /\ LET c == channels[Index(hvar)]
       IN /\ Stamped(c)
          /\ isPaused(c)
          /\ c.pauseTime > 0
          /\ c.pauseStartTime > c.mixerTimeStamp

\* the same channel not paused, all the time since its last mix spent paused
C35_WitnessTight ==
    /\ last.op = "getElapsedTime" /\ last.res = "valid"
    /\ HandleValid(hvar)
    /\ LET c == channels[Index(hvar)]
       IN /\ Stamped(c)
          /\ ~isPaused(c)
          /\ c.pauseTime > 0
          /\ now - c.mixerTimeStamp = c.pauseTime

====
